---- MODULE Spec2Model ----
(***************************************************************************)
(* Code Theater: the scene density pipeline (DensityManager) that turns a  *)
(* list of commits into scene groups, with its scorer, theme classifier    *)
(* and mode selector.                                                      *)
(*                                                                         *)
(* Strings that the code inspects (commit messages, file paths, keywords)  *)
(* are sequences of one-character strings, so that includes, startsWith,   *)
(* endsWith and toLowerCase are computed.  Theme labels, which the code    *)
(* only produces, compares and concatenates, are TLA+ strings.             *)
(***************************************************************************)
EXTENDS Integers, Sequences, FiniteSets, TLC

VARIABLES
  commits,      \* Commit[] argument of processCommits / findAllPivotalCommits / inferTheme
  mode,         \* DensityMode argument of processCommits, or result of determineDensityMode
  result,       \* DensityResult returned by processCommits
  limit,        \* limit argument of findAllPivotalCommits
  pivotal,      \* Commit[] returned by findAllPivotalCommits
  runs,         \* groupByTheme: the list `result` handed to mergeSmallGroups
  merged,       \* processMontage: the list `groups` returned by groupByTheme
  score,        \* number returned by calculatePivotalScore
  theme,        \* string returned by inferTheme
  commitCount,  \* commitCount argument of determineDensityMode
  overrides,    \* overrides argument of determineDensityMode
  pc,           \* "ready" before the call, the name of the completed call after it
  requests,     \* SceneGenerator.generate: the sendAndWait requests issued so far
  awaiting,     \* SceneGenerator.generate: number of sendAndWait promises pending
  sceneNumber,  \* SceneGenerator.generate: local variable sceneNumber
  config,       \* ThrottledToolSystem.config
  callCount,    \* ThrottledToolSystem.callCount
  costUsed,     \* ThrottledToolSystem.costUsed
  callTimestamps, \* ThrottledToolSystem.callTimestamps
  calls,        \* the invocations of throttled handlers: position, tool, wake-up time, result
  handlerRuns,  \* underlying tool handlers invoked since the last resetForNewScene
  now,          \* Date.now()
  cacheStore,   \* CommitCache.config: cache key -> CachedExtraction
  got,          \* the last CommitCache.get: its arguments, its time and the value returned
  written,      \* history: for each (repo, from, to) the argument and time of the last set
  sessionConfig,   \* SessionManager.config.get(repoHash): <<>> or <<StorySession>>
  narrativeConfig, \* SessionManager.narrativeConfig.get(repoHash): <<>> or <<StoredNarrative>>
  acts          \* the runs of the generate command so far: options and SessionResult

densityVars == <<commits, mode, result, limit, pivotal, runs, merged,
                 score, theme, commitCount, overrides>>

generateVars == <<requests, awaiting, sceneNumber>>

throttleVars == <<config, callCount, costUsed, callTimestamps, calls, handlerRuns>>

cacheVars == <<cacheStore, got, written>>

sessionVars == <<sessionConfig, narrativeConfig, acts>>

serviceVars == <<generateVars, throttleVars, now, cacheVars, sessionVars>>

vars == <<densityVars, pc, serviceVars>>

(***************************************************************************)
(* The state outside DensityManager before anything ran: no request sent,  *)
(* a tool system without calls, an empty cache, no stored session.         *)
(***************************************************************************)
GenerateIdle == requests = <<>> /\ awaiting = 0 /\ sceneNumber = 0

ThrottleIdle ==
  /\ config = <<>>
  /\ callCount = 0
  /\ costUsed = 0
  /\ callTimestamps = <<>>
  /\ calls = <<>>
  /\ handlerRuns = 0

CacheIdle == cacheStore = <<>> /\ got = <<>> /\ written = <<>>

SessionIdle == sessionConfig = <<>> /\ narrativeConfig = <<>> /\ acts = <<>>

ServicesIdle == GenerateIdle /\ ThrottleIdle /\ now = 0 /\ CacheIdle /\ SessionIdle

(***************************************************************************)
(* Bounds of the model.                                                    *)
(***************************************************************************)
MaxCommits == 3        \* longest commit list given to processCommits
MaxDate == 2           \* commit timestamps are drawn from 1..MaxDate
MaxLimit == 2          \* largest limit given to findAllPivotalCommits directly
MaxThemeCommits == 2   \* longest commit list given to inferTheme directly
MaxCount == 202        \* largest commitCount given to determineDensityMode
MaxMontageCommits == 5 \* longest commit list given to processMontage step by step
MaxHighlightCommits == 27 \* longest commit list given to processHighlights step by step
MaxGenerateCommits == 2 \* longest commit list given to SceneGenerator.generate
MaxCallsPerScene == 2  \* largest config.maxCallsPerScene given to ThrottledToolSystem
MaxCallsPerMinute == 2 \* largest config.maxCallsPerMinute given to ThrottledToolSystem
MaxBudget == 3         \* largest config.budgetPerScene given to ThrottledToolSystem
MaxTicks == 3          \* the clock advances at most this many half minutes
MaxTtls == 2           \* the cache is observed for this many times CACHE_TTL_MS
MaxRuns == 4           \* runs of the generate command on one repository

(***************************************************************************)
(* JavaScript string primitives.                                           *)
(***************************************************************************)
UpperToLower ==
  { <<"A","a">>, <<"B","b">>, <<"C","c">>, <<"D","d">>, <<"E","e">>, <<"F","f">>, <<"G","g">>, <<"H","h">>, <<"I","i">>, <<"J","j">>, <<"K","k">>, <<"L","l">>, <<"M","m">>, <<"N","n">>, <<"O","o">>, <<"P","p">>, <<"Q","q">>, <<"R","r">>, <<"S","s">>, <<"T","t">>, <<"U","u">>, <<"V","v">>, <<"W","w">>, <<"X","x">>, <<"Y","y">>, <<"Z","z">> }

LowerChar(c) ==
  IF \E p \in UpperToLower : p[1] = c
  THEN (CHOOSE p \in UpperToLower : p[1] = c)[2]
  ELSE c

toLowerCase(s) == [i \in 1..Len(s) |-> LowerChar(s[i])]

includes(s, k) ==
  \E i \in 1..(Len(s) - Len(k) + 1) : SubSeq(s, i, i + Len(k) - 1) = k

startsWith(s, k) == Len(s) >= Len(k) /\ SubSeq(s, 1, Len(k)) = k

endsWith(s, k) == Len(s) >= Len(k) /\ SubSeq(s, Len(s) - Len(k) + 1, Len(s)) = k

(***************************************************************************)
(* Array.prototype.sort: stable, ordered by the sign of the comparator.    *)
(* cmp[j, i] is the comparator's value on the elements at positions j and  *)
(* i of s.  Element i lands after every element that compares before it    *)
(* and after every earlier element that compares equal to it.              *)
(***************************************************************************)
sort(s, cmp) ==
  LET before(j, i) == cmp[j, i] < 0 \/ (cmp[j, i] = 0 /\ j < i)
      rank(i) == Cardinality({j \in 1..Len(s) : before(j, i)}) + 1
  IN  [p \in 1..Len(s) |-> s[CHOOSE i \in 1..Len(s) : rank(i) = p]]

(***************************************************************************)
(* Keywords of calculatePivotalScore and of the file-path fallback.        *)
(***************************************************************************)
K_breaking == <<"b","r","e","a","k","i","n","g">>
K_major == <<"m","a","j","o","r">>
K_release == <<"r","e","l","e","a","s","e">>
K_fix == <<"f","i","x">>
K_critical == <<"c","r","i","t","i","c","a","l">>
K_revert == <<"r","e","v","e","r","t">>
K_merge == <<"m","e","r","g","e">>
K_hotfix == <<"h","o","t","f","i","x">>
K_security == <<"s","e","c","u","r","i","t","y">>
K_feat == <<"f","e","a","t">>
K_test == <<"t","e","s","t">>
K_spec == <<"s","p","e","c">>
K_md == <<".","m","d">>
K_doc == <<"d","o","c">>

(***************************************************************************)
(* DensityManager constants.                                               *)
(***************************************************************************)
FULL_THRESHOLD == 50
MONTAGE_THRESHOLD == 200
HIGHLIGHTS_COUNT == 25

(***************************************************************************)
(* determineDensityMode.  An override that is absent (undefined) or false  *)
(* is falsy.                                                               *)
(***************************************************************************)
Truthy(o, f) == f \in DOMAIN o /\ o[f]

determineDensityMode_strict(count, ov) ==
  IF Truthy(ov, "full") THEN "full"
  ELSE IF Truthy(ov, "highlightsOnly") THEN "highlights"
  ELSE IF count < FULL_THRESHOLD THEN "full"
  ELSE IF count < MONTAGE_THRESHOLD THEN "montage"
  ELSE "highlights"

determineDensityMode(count, ov) ==
  IF Truthy(ov, "full") THEN "full"
  ELSE IF Truthy(ov, "highlightsOnly") THEN "highlights"
  ELSE IF count <= FULL_THRESHOLD THEN "full"
  ELSE IF count <= MONTAGE_THRESHOLD THEN "montage"
  ELSE "highlights"

(***************************************************************************)
(* calculatePivotalScore.  A commit is a record                            *)
(*   [id, message, additions, deletions, files, date]                      *)
(* where id stands for the object's identity (its sha), files is the list  *)
(* of the paths of its file changes and date is date.getTime().            *)
(***************************************************************************)
calculatePivotalScore_exclusive(commit) ==
  LET message == toLowerCase(commit.message)
      pts(cond, n) == IF cond THEN n ELSE 0
  IN  (IF commit.additions + commit.deletions > 500 THEN 2
       ELSE pts(commit.additions + commit.deletions > 200, 2))
    + (IF Len(commit.files) > 20 THEN 2 ELSE pts(Len(commit.files) > 10, 2))
    + pts(includes(message, K_breaking), 3)
    + pts(includes(message, K_major), 2)
    + pts(includes(message, K_release), 2)
    + pts(includes(message, K_fix) /\ includes(message, K_critical), 2)
    + pts(includes(message, K_revert), 2)
    + pts(includes(message, K_merge), 1)
    + pts(includes(message, K_hotfix), 2)
    + pts(includes(message, K_security), 2)
    + pts(startsWith(message, K_feat), 1)

calculatePivotalScore(commit) ==
  LET message == toLowerCase(commit.message)
      pts(cond, n) == IF cond THEN n ELSE 0
  IN  pts(commit.additions + commit.deletions > 200, 2)
    + pts(commit.additions + commit.deletions > 500, 2)
    + pts(Len(commit.files) > 10, 2)
    + pts(Len(commit.files) > 20, 2)
    + pts(includes(message, K_breaking), 3)
    + pts(includes(message, K_major), 2)
    + pts(includes(message, K_release), 2)
    + pts(includes(message, K_fix) /\ includes(message, K_critical), 2)
    + pts(includes(message, K_revert), 2)
    + pts(includes(message, K_merge), 1)
    + pts(includes(message, K_hotfix), 2)
    + pts(includes(message, K_security), 2)
    + pts(startsWith(message, K_feat), 1)

isPivotal_above(commit) == calculatePivotalScore(commit) > 5

isPivotal(commit) == calculatePivotalScore(commit) >= 5

containsPivotalCommit(cs) == \E i \in 1..Len(cs) : isPivotal(cs[i])

findPivotalCommit_last(cs) ==
  IF containsPivotalCommit(cs)
  THEN <<cs[CHOOSE i \in 1..Len(cs) :
              isPivotal(cs[i]) /\ \A j \in (i + 1)..Len(cs) : ~isPivotal(cs[j])]>>
  ELSE <<>>

(* Array.prototype.find: the first pivotal commit; the list <<>> stands for *)
(* undefined.                                                               *)
findPivotalCommit(cs) ==
  IF containsPivotalCommit(cs)
  THEN <<cs[CHOOSE i \in 1..Len(cs) :
              isPivotal(cs[i]) /\ \A j \in 1..(i - 1) : ~isPivotal(cs[j])]>>
  ELSE <<>>

(***************************************************************************)
(* inferTheme.                                                             *)
(***************************************************************************)
patterns ==
  <<
     [keywords |-> << <<"f","i","x">>, <<"b","u","g">>, <<"i","s","s","u","e">>, <<"p","a","t","c","h">> >>,
      theme |-> "Bug Fixes"],
     [keywords |-> << <<"f","e","a","t">>, <<"a","d","d">>, <<"i","m","p","l","e","m","e","n","t">>, <<"n","e","w">> >>,
      theme |-> "New Features"],
     [keywords |-> << <<"r","e","f","a","c","t","o","r">>, <<"c","l","e","a","n">>, <<"r","e","o","r","g","a","n","i","z","e">> >>,
      theme |-> "Refactoring"],
     [keywords |-> << <<"t","e","s","t">>, <<"s","p","e","c">>, <<"c","o","v","e","r","a","g","e">> >>,
      theme |-> "Testing"],
     [keywords |-> << <<"d","o","c">>, <<"r","e","a","d","m","e">>, <<"c","o","m","m","e","n","t">> >>,
      theme |-> "Documentation"],
     [keywords |-> << <<"s","t","y","l","e">>, <<"f","o","r","m","a","t">>, <<"l","i","n","t">> >>,
      theme |-> "Code Style"],
     [keywords |-> << <<"p","e","r","f">>, <<"o","p","t","i","m","i","z","e">>, <<"s","p","e","e","d">> >>,
      theme |-> "Performance"],
     [keywords |-> << <<"s","e","c","u","r","i","t","y">>, <<"a","u","t","h">>, <<"p","e","r","m","i","s","s","i","o","n">> >>,
      theme |-> "Security"],
     [keywords |-> << <<"d","e","p","l","o","y">>, <<"r","e","l","e","a","s","e">>, <<"v","e","r","s","i","o","n">> >>,
      theme |-> "Deployment"],
     [keywords |-> << <<"c","o","n","f","i","g">>, <<"s","e","t","u","p">>, <<"i","n","s","t","a","l","l">> >>,
      theme |-> "Configuration"]
  >>

RECURSIVE firstPattern_last(_, _)
firstPattern_last(messages, i) ==
  IF i > Len(patterns) THEN 0
  ELSE LET later == firstPattern_last(messages, i + 1)
       IN  IF later # 0 THEN later
           ELSE IF \E m \in 1..Len(messages) : \E k \in 1..Len(patterns[i].keywords) :
                     includes(messages[m], patterns[i].keywords[k])
                THEN i
                ELSE 0

RECURSIVE firstPattern(_, _)
firstPattern(messages, i) ==
  IF i > Len(patterns) THEN 0
  ELSE IF \E m \in 1..Len(messages) : \E k \in 1..Len(patterns[i].keywords) :
             includes(messages[m], patterns[i].keywords[k])
       THEN i
       ELSE firstPattern(messages, i + 1)

inferTheme_commitFirst(cs) ==
  LET messages == [i \in 1..Len(cs) |-> toLowerCase(cs[i].message)]
      own(i) == firstPattern(<<messages[i]>>, 1)
      matched == { i \in 1..Len(cs) : own(i) # 0 }
      hit == IF matched = {} THEN 0
             ELSE own(CHOOSE i \in matched : \A j \in matched : i <= j)
      anyFile(P(_)) == \E c \in 1..Len(cs) : \E f \in 1..Len(cs[c].files) : P(cs[c].files[f])
      testPath(f) == includes(f, K_test) \/ includes(f, K_spec)
      docPath(f) == endsWith(f, K_md) \/ includes(f, K_doc)
  IN  IF hit # 0 THEN patterns[hit].theme
      ELSE IF anyFile(testPath) THEN "Testing"
      ELSE IF anyFile(docPath) THEN "Documentation"
      ELSE "Development"

inferTheme(cs) ==
  LET messages == [i \in 1..Len(cs) |-> toLowerCase(cs[i].message)]
      hit == firstPattern(messages, 1)
      anyFile(P(_)) == \E c \in 1..Len(cs) : \E f \in 1..Len(cs[c].files) : P(cs[c].files[f])
      testPath(f) == includes(f, K_test) \/ includes(f, K_spec)
      docPath(f) == endsWith(f, K_md) \/ includes(f, K_doc)
  IN  IF hit # 0 THEN patterns[hit].theme
      ELSE IF anyFile(testPath) THEN "Testing"
      ELSE IF anyFile(docPath) THEN "Documentation"
      ELSE "Development"

(***************************************************************************)
(* findAllPivotalCommits: score, sort by score descending, take the first  *)
(* limit, sort those by date ascending.                                    *)
(***************************************************************************)
Min(a, b) == IF a <= b THEN a ELSE b

byScoreDescending(a, b) == b.score - a.score

byDateAscending(a, b) == a.date - b.date

findAllPivotalCommits_noLimit(cs, lim) ==
  LET scored == [i \in 1..Len(cs) |->
                   [commit |-> cs[i], score |-> calculatePivotalScore(cs[i])]]
      sorted == sort(scored, [a, b \in 1..Len(scored) |-> byScoreDescending(scored[a], scored[b])])
      top == [i \in 1..Len(sorted) |-> sorted[i].commit]
  IN  sort(top, [a, b \in 1..Len(top) |-> byDateAscending(top[a], top[b])])

findAllPivotalCommits_noResort(cs, lim) ==
  LET scored == [i \in 1..Len(cs) |->
                   [commit |-> cs[i], score |-> calculatePivotalScore(cs[i])]]
      sorted == sort(scored, [a, b \in 1..Len(scored) |-> byScoreDescending(scored[a], scored[b])])
  IN  [i \in 1..Min(lim, Len(sorted)) |-> sorted[i].commit]

findAllPivotalCommits_unstable(cs, lim) ==
  LET scored == [i \in 1..Len(cs) |->
                   [commit |-> cs[Len(cs) + 1 - i],
                    score |-> calculatePivotalScore(cs[Len(cs) + 1 - i])]]
      sorted == sort(scored, [a, b \in 1..Len(scored) |-> byScoreDescending(scored[a], scored[b])])
      top == [i \in 1..Min(lim, Len(sorted)) |-> sorted[i].commit]
  IN  sort(top, [a, b \in 1..Len(top) |-> byDateAscending(top[a], top[b])])

findAllPivotalCommits(cs, lim) ==
  LET scored == [i \in 1..Len(cs) |->
                   [commit |-> cs[i], score |-> calculatePivotalScore(cs[i])]]
      sorted == sort(scored, [a, b \in 1..Len(scored) |-> byScoreDescending(scored[a], scored[b])])
      top == [i \in 1..Min(lim, Len(sorted)) |-> sorted[i].commit]
  IN  sort(top, [a, b \in 1..Len(top) |-> byDateAscending(top[a], top[b])])

(***************************************************************************)
(* Scene groups.  A group without title or isPivotal has no such field,    *)
(* as in the object literals of the code.                                  *)
(***************************************************************************)
SingleScene(cs) == [type |-> "single", commits |-> cs]

MontageScene(title, cs) == [type |-> "montage", title |-> title, commits |-> cs]

HighlightScene(c) == [type |-> "highlight", commits |-> <<c>>, isPivotal |-> TRUE]

DensityResult(m, scenes, cs) ==
  [mode |-> m, scenes |-> scenes, totalCommits |-> Len(cs), scenesCount |-> Len(scenes)]

processFull_oneGroup(cs) ==
  DensityResult("full", IF cs = <<>> THEN <<>> ELSE <<SingleScene(cs)>>, cs)

processFull(cs) ==
  DensityResult("full", [i \in 1..Len(cs) |-> SingleScene(<<cs[i]>>)], cs)

(***************************************************************************)
(* groupByTheme: the second loop of the method (the Map filled by the      *)
(* first loop is never read).  current is <<>> for null, else <<group>>.   *)
(***************************************************************************)
RECURSIVE themeRuns_buckets(_, _, _, _)
themeRuns_buckets(cs, i, res, current) ==
  IF i > Len(cs) THEN res
  ELSE LET t == inferTheme(<<cs[i]>>)
           seen == { g \in 1..Len(res) : res[g].title = t }
       IN  IF seen = {}
           THEN themeRuns_buckets(cs, i + 1,
                                  Append(res, [title |-> t, commits |-> <<cs[i]>>]),
                                  current)
           ELSE themeRuns_buckets(cs, i + 1,
                                  [g \in 1..Len(res) |->
                                     IF g \in seen
                                     THEN [title |-> t,
                                           commits |-> Append(res[g].commits, cs[i])]
                                     ELSE res[g]],
                                  current)

RECURSIVE themeRuns(_, _, _, _)
themeRuns(cs, i, res, current) ==
  IF i > Len(cs) THEN res \o current
  ELSE LET t == inferTheme(<<cs[i]>>)
       IN  IF current = <<>> \/ current[1].title # t
           THEN themeRuns(cs, i + 1, res \o current,
                          <<[title |-> t, commits |-> <<cs[i]>>]>>)
           ELSE themeRuns(cs, i + 1, res,
                          <<[title |-> t, commits |-> Append(current[1].commits, cs[i])]>>)

RECURSIVE mergeLoop_singlesOnly(_, _, _, _)
mergeLoop_singlesOnly(groups, i, res, pending) ==
  IF i > Len(groups) THEN res \o pending
  ELSE IF pending = <<>> THEN mergeLoop_singlesOnly(groups, i + 1, res, <<groups[i]>>)
  ELSE IF Len(pending[1].commits) < 2 /\ Len(groups[i].commits) < 3
       THEN mergeLoop_singlesOnly(groups, i + 1, res,
                      <<[title |-> pending[1].title \o " & " \o groups[i].title,
                         commits |-> pending[1].commits \o groups[i].commits]>>)
       ELSE mergeLoop_singlesOnly(groups, i + 1, res \o pending, <<groups[i]>>)

RECURSIVE mergeLoop_greedy(_, _, _, _)
mergeLoop_greedy(groups, i, res, pending) ==
  IF i > Len(groups) THEN res \o pending
  ELSE IF pending = <<>> THEN mergeLoop_greedy(groups, i + 1, res, <<groups[i]>>)
  ELSE IF Len(groups[i].commits) < 3
       THEN mergeLoop_greedy(groups, i + 1, res,
                      <<[title |-> pending[1].title \o " & " \o groups[i].title,
                         commits |-> pending[1].commits \o groups[i].commits]>>)
       ELSE mergeLoop_greedy(groups, i + 1, res \o pending, <<groups[i]>>)

RECURSIVE mergeLoop_oneShot(_, _, _, _)
mergeLoop_oneShot(groups, i, res, pending) ==
  IF i > Len(groups) THEN res \o pending
  ELSE IF pending = <<>> THEN mergeLoop_oneShot(groups, i + 1, res, <<groups[i]>>)
  ELSE IF Len(pending[1].commits) < 3 /\ Len(groups[i].commits) < 3
       THEN mergeLoop_oneShot(groups, i + 1,
                              Append(res,
                                     [title |-> pending[1].title \o " & " \o groups[i].title,
                                      commits |-> pending[1].commits \o groups[i].commits]),
                              <<>>)
       ELSE mergeLoop_oneShot(groups, i + 1, res \o pending, <<groups[i]>>)

RECURSIVE mergeLoop(_, _, _, _)
mergeLoop(groups, i, res, pending) ==
  IF i > Len(groups) THEN res \o pending
  ELSE IF pending = <<>> THEN mergeLoop(groups, i + 1, res, <<groups[i]>>)
  ELSE IF Len(pending[1].commits) < 3 /\ Len(groups[i].commits) < 3
       THEN mergeLoop(groups, i + 1, res,
                      <<[title |-> pending[1].title \o " & " \o groups[i].title,
                         commits |-> pending[1].commits \o groups[i].commits]>>)
       ELSE mergeLoop(groups, i + 1, res \o pending, <<groups[i]>>)

mergeSmallGroups(groups) == mergeLoop(groups, 1, <<>>, <<>>)

groupByTheme(cs) == mergeSmallGroups(themeRuns(cs, 1, <<>>, <<>>))

(***************************************************************************)
(* processMontage.                                                         *)
(***************************************************************************)
montageScenesOf_wholeGroup(group) ==
  IF Len(group.commits) = 1 THEN <<SingleScene(group.commits)>>
  ELSE IF containsPivotalCommit(group.commits)
       THEN LET found == findPivotalCommit(group.commits)
                keep(c) == found = <<>> \/ c # found[1]
                others == SelectSeq(group.commits, keep)
            IN  (IF Len(others) > 0 THEN <<MontageScene(group.title, others)>> ELSE <<>>)
                \o (IF found # <<>>
                    THEN <<[type |-> "highlight", commits |-> group.commits,
                            isPivotal |-> TRUE]>>
                    ELSE <<>>)
       ELSE <<MontageScene(group.title, group.commits)>>

montageScenesOf_highlightFirst(group) ==
  IF Len(group.commits) = 1 THEN <<SingleScene(group.commits)>>
  ELSE IF containsPivotalCommit(group.commits)
       THEN LET found == findPivotalCommit(group.commits)
                keep(c) == found = <<>> \/ c # found[1]
                others == SelectSeq(group.commits, keep)
            IN  (IF found # <<>> THEN <<HighlightScene(found[1])>> ELSE <<>>)
                \o (IF Len(others) > 0 THEN <<MontageScene(group.title, others)>> ELSE <<>>)
       ELSE <<MontageScene(group.title, group.commits)>>

montageScenesOf_pivotalFirst(group) ==
  IF containsPivotalCommit(group.commits)
  THEN LET found == findPivotalCommit(group.commits)
           keep(c) == found = <<>> \/ c # found[1]
           others == SelectSeq(group.commits, keep)
       IN  (IF Len(others) > 0 THEN <<MontageScene(group.title, others)>> ELSE <<>>)
           \o (IF found # <<>> THEN <<HighlightScene(found[1])>> ELSE <<>>)
  ELSE IF Len(group.commits) = 1 THEN <<SingleScene(group.commits)>>
       ELSE <<MontageScene(group.title, group.commits)>>

montageScenesOf(group) ==
  IF Len(group.commits) = 1 THEN <<SingleScene(group.commits)>>
  ELSE IF containsPivotalCommit(group.commits)
       THEN LET found == findPivotalCommit(group.commits)
                keep(c) == found = <<>> \/ c # found[1]
                others == SelectSeq(group.commits, keep)
            IN  (IF Len(others) > 0 THEN <<MontageScene(group.title, others)>> ELSE <<>>)
                \o (IF found # <<>> THEN <<HighlightScene(found[1])>> ELSE <<>>)
       ELSE <<MontageScene(group.title, group.commits)>>

RECURSIVE montageLoop(_, _, _)
montageLoop(groups, i, scenes) ==
  IF i > Len(groups) THEN scenes
  ELSE montageLoop(groups, i + 1, scenes \o montageScenesOf(groups[i]))

processMontage(cs) ==
  DensityResult("montage", montageLoop(groupByTheme(cs), 1, <<>>), cs)

(***************************************************************************)
(* processHighlights.  Indices are 0-based as in the code; slice(a, b) is  *)
(* SubSeq(cs, a + 1, b).                                                   *)
(***************************************************************************)
indexOf(cs, c) ==
  IF \E i \in 1..Len(cs) : cs[i] = c
  THEN (CHOOSE i \in 1..Len(cs) : cs[i] = c /\ \A j \in 1..(i - 1) : cs[j] # c) - 1
  ELSE -1

slice(cs, from, to) == SubSeq(cs, from + 1, to)

RECURSIVE highlightsLoop_unguarded(_, _, _, _, _)
highlightsLoop_unguarded(cs, piv, k, lastIndex, scenes) ==
  IF k > Len(piv)
  THEN scenes \o
       <<MontageScene(inferTheme(slice(cs, lastIndex, Len(cs))),
                      slice(cs, lastIndex, Len(cs)))>>
  ELSE LET currentIndex == indexOf(cs, piv[k])
           skipped == slice(cs, lastIndex, currentIndex)
           gap == IF currentIndex > lastIndex /\ Len(skipped) > 0
                  THEN <<MontageScene(inferTheme(skipped), skipped)>>
                  ELSE <<>>
       IN  highlightsLoop_unguarded(cs, piv, k + 1, currentIndex + 1,
                                    scenes \o gap \o <<HighlightScene(piv[k])>>)

RECURSIVE highlightsLoop_inclusive(_, _, _, _, _)
highlightsLoop_inclusive(cs, piv, k, lastIndex, scenes) ==
  IF k > Len(piv)
  THEN scenes \o
       (IF lastIndex < Len(cs) /\ Len(slice(cs, lastIndex, Len(cs))) > 0
        THEN <<MontageScene(inferTheme(slice(cs, lastIndex, Len(cs))),
                            slice(cs, lastIndex, Len(cs)))>>
        ELSE <<>>)
  ELSE LET currentIndex == indexOf(cs, piv[k])
           skipped == slice(cs, lastIndex, currentIndex)
           gap == IF currentIndex > lastIndex /\ Len(skipped) > 0
                  THEN <<MontageScene(inferTheme(skipped), skipped)>>
                  ELSE <<>>
       IN  highlightsLoop_inclusive(cs, piv, k + 1, currentIndex,
                                    scenes \o gap \o <<HighlightScene(piv[k])>>)

RECURSIVE highlightsLoop(_, _, _, _, _)
highlightsLoop(cs, piv, k, lastIndex, scenes) ==
  IF k > Len(piv)
  THEN scenes \o
       (IF lastIndex < Len(cs) /\ Len(slice(cs, lastIndex, Len(cs))) > 0
        THEN <<MontageScene(inferTheme(slice(cs, lastIndex, Len(cs))),
                            slice(cs, lastIndex, Len(cs)))>>
        ELSE <<>>)
  ELSE LET currentIndex == indexOf(cs, piv[k])
           skipped == slice(cs, lastIndex, currentIndex)
           gap == IF currentIndex > lastIndex /\ Len(skipped) > 0
                  THEN <<MontageScene(inferTheme(skipped), skipped)>>
                  ELSE <<>>
       IN  highlightsLoop(cs, piv, k + 1, currentIndex + 1,
                          scenes \o gap \o <<HighlightScene(piv[k])>>)

processHighlights(cs) ==
  DensityResult("highlights",
                highlightsLoop(cs, findAllPivotalCommits(cs, HIGHLIGHTS_COUNT), 1, 0, <<>>),
                cs)

processCommits(cs, m) ==
  CASE m = "full" -> processFull(cs)
    [] m = "montage" -> processMontage(cs)
    [] m = "highlights" -> processHighlights(cs)

(***************************************************************************)
(* The arrays findAllPivotalCommits works on.  commits.map and             *)
(* scored.slice(0, limit).map allocate new arrays; each sort reorders its  *)
(* receiver in place: the first one scored, the second one top.  The field *)
(* commits is the caller's array when the method returns.                  *)
(***************************************************************************)
findAllPivotalCommitsArrays_inPlace(cs, lim) ==
  LET scores == [i \in 1..Len(cs) |-> calculatePivotalScore(cs[i])]
      sorted == sort(cs, [a, b \in 1..Len(cs) |-> scores[b] - scores[a]])
      top == [i \in 1..Min(lim, Len(sorted)) |-> sorted[i]]
  IN  [commits |-> sorted,
       top |-> sort(top, [a, b \in 1..Len(top) |-> byDateAscending(top[a], top[b])])]

findAllPivotalCommitsArrays(cs, lim) ==
  LET scored == [i \in 1..Len(cs) |->
                   [commit |-> cs[i], score |-> calculatePivotalScore(cs[i])]]
      sorted == sort(scored, [a, b \in 1..Len(scored) |-> byScoreDescending(scored[a], scored[b])])
      top == [i \in 1..Min(lim, Len(sorted)) |-> sorted[i].commit]
  IN  [commits |-> cs,
       scored |-> sorted,
       top |-> sort(top, [a, b \in 1..Len(top) |-> byDateAscending(top[a], top[b])])]

(***************************************************************************)
(* The caller's array after processCommits(cs, m).  processFull maps it,   *)
(* groupByTheme iterates it and pushes into arrays of its own,             *)
(* processHighlights passes it to findAllPivotalCommits and then reads it  *)
(* with indexOf and slice.                                                 *)
(***************************************************************************)
commitsAfter(cs, m) ==
  CASE m = "full" -> cs
    [] m = "montage" -> cs
    [] m = "highlights" -> findAllPivotalCommitsArrays(cs, HIGHLIGHTS_COUNT).commits

(***************************************************************************)
(* Inputs.  A commit list is built from commit shapes (message, diff       *)
(* stats, file paths); the commit at position i gets identity i and a      *)
(* timestamp of its own.  GitService.getCommits returns the commits in the *)
(* order of git log, so a list is not necessarily in ascending date order  *)
(* and timestamps may repeat.                                              *)
(***************************************************************************)
P_src == <<"s","r","c","/","a",".","t","s">>
P_readme == <<"R","E","A","D","M","E",".","m","d">>

Shapes ==
  << [message |-> <<"f","i","x",":"," ","a">>,
      additions |-> 10, deletions |-> 5, files |-> <<P_src>>],
     [message |-> <<"f","e","a","t",":"," ","b">>,
      additions |-> 20, deletions |-> 0, files |-> <<P_src>>],
     [message |-> <<"r","e","v","e","r","t"," ","m","a","j","o","r">>,
      additions |-> 1, deletions |-> 1, files |-> <<P_readme>>],
     [message |-> <<"H","o","t","f","i","x"," ","b","r","e","a","k","i","n","g">>,
      additions |-> 3, deletions |-> 0, files |-> <<P_src>>] >>

Commit(i, shape, date) ==
  [id |-> i, message |-> shape.message, additions |-> shape.additions,
   deletions |-> shape.deletions, files |-> shape.files, date |-> date]

CommitLists(maxLen) ==
  UNION { { [i \in 1..n |-> Commit(i, Shapes[sh[i]], dt[i])] :
              sh \in [1..n -> 1..Len(Shapes)], dt \in [1..n -> 1..MaxDate] } :
          n \in 0..maxLen }

Modes == {"full", "montage", "highlights"}

NoResult == [mode |-> "none", scenes |-> <<>>, totalCommits |-> 0, scenesCount |-> 0]

NoOverrides == [x \in {} |-> TRUE]

(***************************************************************************)
(* Specification Spec: processCommits(commits, mode).                      *)
(***************************************************************************)
Idle ==
  /\ result = NoResult
  /\ limit = 0
  /\ pivotal = <<>>
  /\ score = 0
  /\ theme = ""
  /\ commitCount = 0
  /\ overrides = NoOverrides

Init ==
  /\ runs = <<>>
  /\ merged = <<>>
  /\ commits \in CommitLists(MaxCommits)
  /\ mode \in Modes
  /\ pc = "ready"
  /\ Idle
  /\ ServicesIdle

ProcessFull ==
  /\ pc = "ready"
  /\ mode = "full"
  /\ result' = processCommits(commits, mode)
  /\ commits' = commitsAfter(commits, mode)
  /\ pc' = "processCommits"
  /\ UNCHANGED <<runs, merged, mode, limit, pivotal, score, theme, commitCount, overrides>>
  /\ UNCHANGED serviceVars

ProcessMontage ==
  /\ pc = "ready"
  /\ mode = "montage"
  /\ result' = processCommits(commits, mode)
  /\ commits' = commitsAfter(commits, mode)
  /\ pc' = "processCommits"
  /\ UNCHANGED <<runs, merged, mode, limit, pivotal, score, theme, commitCount, overrides>>
  /\ UNCHANGED serviceVars

ProcessHighlights ==
  /\ pc = "ready"
  /\ mode = "highlights"
  /\ result' = processCommits(commits, mode)
  /\ commits' = commitsAfter(commits, mode)
  /\ pc' = "processCommits"
  /\ UNCHANGED <<runs, merged, mode, limit, pivotal, score, theme, commitCount, overrides>>
  /\ UNCHANGED serviceVars

Next == ProcessFull \/ ProcessMontage \/ ProcessHighlights

Spec == Init /\ [][Next]_vars

(***************************************************************************)
(* Specification SpecMode: determineDensityMode(commitCount, overrides).   *)
(* Each override is absent, false or true.                                 *)
(***************************************************************************)
OverridesSet == UNION { [D -> BOOLEAN] : D \in SUBSET {"full", "highlightsOnly"} }

InitMode ==
  /\ runs = <<>>
  /\ merged = <<>>
  /\ commitCount \in 0..MaxCount
  /\ overrides \in OverridesSet
  /\ commits = <<>>
  /\ mode = "none"
  /\ result = NoResult
  /\ limit = 0
  /\ pivotal = <<>>
  /\ score = 0
  /\ theme = ""
  /\ pc = "ready"
  /\ ServicesIdle

DetermineDensityMode ==
  /\ pc = "ready"
  /\ mode' = determineDensityMode(commitCount, overrides)
  /\ pc' = "determineDensityMode"
  /\ UNCHANGED <<commits, runs, merged, result, limit, pivotal, score, theme, commitCount, overrides>>
  /\ UNCHANGED serviceVars

NextMode == DetermineDensityMode

SpecMode == InitMode /\ [][NextMode]_vars

(***************************************************************************)
(* Specification SpecRank: findAllPivotalCommits(commits, limit).          *)
(***************************************************************************)
InitRank ==
  /\ runs = <<>>
  /\ merged = <<>>
  /\ commits \in CommitLists(MaxCommits)
  /\ limit \in 0..MaxLimit
  /\ mode = "none"
  /\ result = NoResult
  /\ pivotal = <<>>
  /\ score = 0
  /\ theme = ""
  /\ commitCount = 0
  /\ overrides = NoOverrides
  /\ pc = "ready"
  /\ ServicesIdle

FindAllPivotalCommits ==
  /\ pc = "ready"
  /\ pivotal' = findAllPivotalCommits(commits, limit)
  /\ pc' = "findAllPivotalCommits"
  /\ UNCHANGED <<commits, runs, merged, mode, result, limit, score, theme, commitCount, overrides>>
  /\ UNCHANGED serviceVars

NextRank == FindAllPivotalCommits

SpecRank == InitRank /\ [][NextRank]_vars

(***************************************************************************)
(* Specification SpecScore: calculatePivotalScore(commits[1]).  The        *)
(* message is any selection of the scoring words, joined by spaces, in     *)
(* table order or in reverse; the diff size and the number of files sit on *)
(* both sides of each threshold.                                           *)
(***************************************************************************)
ScoreWords ==
  <<K_feat, K_breaking, K_major, K_release, K_fix, K_critical, K_revert, K_merge,
    K_hotfix, K_security>>

RECURSIVE joinWords(_, _, _)
joinWords(S, i, step) ==
  IF i < 1 \/ i > Len(ScoreWords) THEN <<>>
  ELSE LET rest == joinWords(S, i + step, step)
       IN  IF i \notin S THEN rest
           ELSE IF rest = <<>> THEN ScoreWords[i]
           ELSE ScoreWords[i] \o <<" ">> \o rest

ScoreMessages ==
  { joinWords(S, 1, 1) : S \in SUBSET (1..Len(ScoreWords)) }
  \cup { joinWords(S, Len(ScoreWords), -1) : S \in SUBSET (1..Len(ScoreWords)) }

M_example == <<"b","r","e","a","k","i","n","g",":"," ","m","a","j","o","r"," ","r","e","l","e","a","s","e"," ","h","o","t","f","i","x"," ","f","o","r"," ","c","r","i","t","i","c","a","l"," ","f","i","x">>

ScoreSizes == { <<100, 100>>, <<101, 100>>, <<250, 250>>, <<251, 250>> }

ScoreFileCounts == {10, 11, 20, 21}

ScoreCommits ==
  { [id |-> 1, message |-> m, additions |-> sz[1], deletions |-> sz[2],
     files |-> [i \in 1..n |-> P_src], date |-> 1] :
      m \in ScoreMessages, sz \in ScoreSizes, n \in ScoreFileCounts }
  \cup { [id |-> 1, message |-> M_example, additions |-> 350, deletions |-> 250,
          files |-> [i \in 1..25 |-> P_src], date |-> 1] }

InitScore ==
  /\ runs = <<>>
  /\ merged = <<>>
  /\ commits \in { <<c>> : c \in ScoreCommits }
  /\ mode = "none"
  /\ result = NoResult
  /\ limit = 0
  /\ pivotal = <<>>
  /\ score = 0
  /\ theme = ""
  /\ commitCount = 0
  /\ overrides = NoOverrides
  /\ pc = "ready"
  /\ ServicesIdle

CalculatePivotalScore ==
  /\ pc = "ready"
  /\ score' = calculatePivotalScore(commits[1])
  /\ pc' = "calculatePivotalScore"
  /\ UNCHANGED <<commits, runs, merged, mode, result, limit, pivotal, theme, commitCount, overrides>>
  /\ UNCHANGED serviceVars

NextScore == CalculatePivotalScore

SpecScore == InitScore /\ [][NextScore]_vars

(***************************************************************************)
(* Specification SpecTheme: inferTheme(commits).  A commit carries one     *)
(* keyword as its message, or a message with two keywords of different     *)
(* themes, or a message without keyword and some file paths.  Every        *)
(* keyword occurs in a one-commit list; longer lists use the first keyword *)
(* of each theme.                                                          *)
(***************************************************************************)
M_wip == <<"w","i","p">>
M_FixTest == <<"F","i","x"," ","t","e","s","t">>
P_test == <<"s","r","c","/","a",".","t","e","s","t",".","t","s">>
P_spec == <<"a",".","s","p","e","c",".","t","s">>
P_docs == <<"d","o","c","s","/","x",".","t","x","t">>

AllKeywords ==
  UNION { { patterns[i].keywords[k] : k \in 1..Len(patterns[i].keywords) } :
          i \in 1..Len(patterns) }

FirstKeywords == { patterns[i].keywords[1] : i \in 1..Len(patterns) }

KeywordShape(k) == [message |-> k, additions |-> 1, deletions |-> 0, files |-> <<P_src>>]

ThemeShapes ==
  { KeywordShape(k) : k \in FirstKeywords }
  \cup { [message |-> M_FixTest, additions |-> 1, deletions |-> 0, files |-> <<P_src>>] }
  \cup { [message |-> M_wip, additions |-> 1, deletions |-> 0, files |-> fs] :
           fs \in { <<>>, <<P_src>>, <<P_test>>, <<P_spec>>, <<P_readme>>, <<P_docs>>,
                    <<P_src, P_docs>> } }

ThemeLists(maxLen) ==
  { <<Commit(1, KeywordShape(k), 1)>> : k \in AllKeywords }
  \cup UNION { { [i \in 1..n |-> Commit(i, sh[i], i)] : sh \in [1..n -> ThemeShapes] } :
               n \in 0..maxLen }

InitTheme ==
  /\ runs = <<>>
  /\ merged = <<>>
  /\ commits \in ThemeLists(MaxThemeCommits)
  /\ mode = "none"
  /\ result = NoResult
  /\ limit = 0
  /\ pivotal = <<>>
  /\ score = 0
  /\ theme = ""
  /\ commitCount = 0
  /\ overrides = NoOverrides
  /\ pc = "ready"
  /\ ServicesIdle

InferTheme ==
  /\ pc = "ready"
  /\ theme' = inferTheme(commits)
  /\ pc' = "inferTheme"
  /\ UNCHANGED <<commits, runs, merged, mode, result, limit, pivotal, score, commitCount, overrides>>
  /\ UNCHANGED serviceVars

NextTheme == InferTheme

SpecTheme == InitTheme /\ [][NextTheme]_vars

(***************************************************************************)
(* Specification SpecMontage: processMontage(commits) step by step: the    *)
(* consecutive grouping loop of groupByTheme, then mergeSmallGroups, then  *)
(* the loop of processMontage over the groups.  Timestamps play no part in *)
(* montage mode; the commit at position i has date i.                      *)
(***************************************************************************)
MontageLists(maxLen) ==
  UNION { { [i \in 1..n |-> Commit(i, Shapes[sh[i]], i)] :
              sh \in [1..n -> 1..Len(Shapes)] } :
          n \in 0..maxLen }

InitMontage ==
  /\ commits \in MontageLists(MaxMontageCommits)
  /\ mode = "montage"
  /\ runs = <<>>
  /\ merged = <<>>
  /\ pc = "ready"
  /\ Idle
  /\ ServicesIdle

GroupRuns ==
  /\ pc = "ready"
  /\ runs' = themeRuns(commits, 1, <<>>, <<>>)
  /\ pc' = "runs"
  /\ UNCHANGED <<commits, mode, result, limit, pivotal, merged, score, theme,
                 commitCount, overrides>>
  /\ UNCHANGED serviceVars

MergeSmallGroups ==
  /\ pc = "runs"
  /\ merged' = mergeSmallGroups(runs)
  /\ pc' = "groupByTheme"
  /\ UNCHANGED <<commits, mode, result, limit, pivotal, runs, score, theme,
                 commitCount, overrides>>
  /\ UNCHANGED serviceVars

EmitMontageScenes ==
  /\ pc = "groupByTheme"
  /\ result' = DensityResult("montage", montageLoop(merged, 1, <<>>), commits)
  /\ pc' = "processMontage"
  /\ UNCHANGED <<commits, mode, limit, pivotal, runs, merged, score, theme,
                 commitCount, overrides>>
  /\ UNCHANGED serviceVars

NextMontage == GroupRuns \/ MergeSmallGroups \/ EmitMontageScenes

SpecMontage == InitMontage /\ [][NextMontage]_vars

(***************************************************************************)
(* Specification SpecHighlights: processHighlights step by step, on lists  *)
(* around and above HIGHLIGHTS_COUNT commits.  The commits are "feat: b"   *)
(* except at the two first and the two last positions, which take any of   *)
(* three shapes (scores 0, 1 and 5); the list is in ascending date order   *)
(* or, as git log prints it, in descending date order.                     *)
(***************************************************************************)
SlotShapes == { sh \in 1..Len(Shapes) : calculatePivotalScore(Shapes[sh]) \in {0, 1, 5} }

Slots(n) == {1, 2, n - 1, n}

HighlightLists(maxLen) ==
  UNION { { [i \in 1..n |->
               Commit(i, Shapes[IF i \in Slots(n) THEN sh[i] ELSE 2],
                      IF newestFirst THEN n + 1 - i ELSE i)] :
              sh \in [Slots(n) -> SlotShapes], newestFirst \in BOOLEAN } :
          n \in HIGHLIGHTS_COUNT..maxLen }

InitHighlights ==
  /\ commits \in HighlightLists(MaxHighlightCommits)
  /\ mode = "highlights"
  /\ runs = <<>>
  /\ merged = <<>>
  /\ pc = "ready"
  /\ Idle
  /\ ServicesIdle

SelectPivotal ==
  /\ pc = "ready"
  /\ pivotal' = findAllPivotalCommits(commits, HIGHLIGHTS_COUNT)
  /\ pc' = "pivotal"
  /\ UNCHANGED <<commits, mode, result, limit, runs, merged, score, theme,
                 commitCount, overrides>>
  /\ UNCHANGED serviceVars

WalkHighlights ==
  /\ pc = "pivotal"
  /\ result' = DensityResult("highlights", highlightsLoop(commits, pivotal, 1, 0, <<>>),
                             commits)
  /\ pc' = "processHighlights"
  /\ UNCHANGED <<commits, mode, limit, pivotal, runs, merged, score, theme,
                 commitCount, overrides>>
  /\ UNCHANGED serviceVars

NextHighlights == SelectPivotal \/ WalkHighlights

SpecHighlights == InitHighlights /\ [][NextHighlights]_vars

(***************************************************************************)
(* ThrottledToolSystem.  A throttled handler runs without interruption     *)
(* from its invocation to its first await (the sleep of the rate limit or  *)
(* the underlying handler) and between two awaits; handlers invoked while  *)
(* another one is suspended interleave at these points.                    *)
(***************************************************************************)
DEFAULT_THROTTLE ==
  [maxCallsPerScene |-> 15,
   maxCallsPerMinute |-> 30,
   costPerTool |-> [get_file_at_commit |-> 1, get_contributor_history |-> 2,
                    find_related_commits |-> 2, get_blame_context |-> 1,
                    search_codebase |-> 3, get_branch_drama |-> 2,
                    analyze_complexity |-> 3, get_commit_neighborhood |-> 1,
                    get_file_evolution |-> 2, get_day_in_the_life |-> 2],
   budgetPerScene |-> 20]

MINUTE_MS == 60000

\* this.config.costPerTool[toolName] || 1
toolCostOf(cfg, toolName) ==
  IF toolName \in DOMAIN cfg.costPerTool /\ cfg.costPerTool[toolName] # 0
  THEN cfg.costPerTool[toolName]
  ELSE 1

\* The two checks made before anything is changed: "limit" and "budget" are
\* the early returns with success: false.
throttleCheck_lenient(cfg, count, used, toolName) ==
  IF count > cfg.maxCallsPerScene THEN "limit"
  ELSE IF used + toolCostOf(cfg, toolName) > cfg.budgetPerScene THEN "budget"
  ELSE "pass"

throttleCheck(cfg, count, used, toolName) ==
  IF count >= cfg.maxCallsPerScene THEN "limit"
  ELSE IF used + toolCostOf(cfg, toolName) > cfg.budgetPerScene THEN "budget"
  ELSE "pass"

\* this.callTimestamps.filter((t) => now - t < 60000)
recentTimestamps(ts, t0) ==
  LET recent(t) == t0 - t < MINUTE_MS IN SelectSeq(ts, recent)

getStats ==
  [callsUsed |-> callCount,
   callsRemaining |-> config.maxCallsPerScene - callCount,
   budgetUsed |-> costUsed,
   budgetRemaining |-> config.budgetPerScene - costUsed]

(***************************************************************************)
(* Specification SpecThrottle: one ThrottledToolSystem whose configuration *)
(* overrides the three limits of DEFAULT_THROTTLE, two handler invocations *)
(* that can be in progress at the same time, resetForNewScene at any time, *)
(* and a clock that advances by half minutes.                              *)
(***************************************************************************)
ToolNames == {"search_codebase", "get_commit_diff"}

Invocations == {"a", "b"}

Tick == MINUTE_MS \div 2

NoCall == [pc |-> "idle", tool |-> "", wakeAt |-> 0, result |-> "none"]

ThrottleConfigs ==
  { [DEFAULT_THROTTLE EXCEPT !.maxCallsPerScene = s, !.maxCallsPerMinute = m,
                             !.budgetPerScene = b] :
      s \in 1..MaxCallsPerScene, m \in 1..MaxCallsPerMinute, b \in 1..MaxBudget }

InitThrottle ==
  /\ config \in ThrottleConfigs
  /\ callCount = 0
  /\ costUsed = 0
  /\ callTimestamps = <<>>
  /\ calls = [c \in Invocations |-> NoCall]
  /\ handlerRuns = 0
  /\ now = 0
  /\ pc = "ready"
  /\ commits = <<>> /\ mode = "none" /\ runs = <<>> /\ merged = <<>> /\ Idle
  /\ GenerateIdle /\ CacheIdle /\ SessionIdle

\* Lines 263-266: the handler is executed: counters, timestamp, and the call
\* of the underlying handler, which is awaited.
Execute(c, toolName, ts) ==
  /\ callCount' = callCount + 1
  /\ costUsed' = costUsed + toolCostOf(config, toolName)
  /\ callTimestamps' = Append(ts, now)
  /\ handlerRuns' = handlerRuns + 1
  /\ calls' = [calls EXCEPT ![c] = [pc |-> "running", tool |-> toolName,
                                    wakeAt |-> 0, result |-> "none"]]

\* A throttled handler is invoked and runs to its return or to its first await.
InvokeTool(c, toolName) ==
  /\ calls[c].pc = "idle"
  /\ LET check == throttleCheck(config, callCount, costUsed, toolName)
         recent == recentTimestamps(callTimestamps, now)
     IN  IF check # "pass"
         THEN /\ calls' = [calls EXCEPT ![c] = [pc |-> "idle", tool |-> toolName,
                                                wakeAt |-> 0, result |-> check]]
              /\ UNCHANGED <<callCount, costUsed, callTimestamps, handlerRuns>>
         ELSE IF Len(recent) >= config.maxCallsPerMinute
         THEN /\ callTimestamps' = recent
              /\ calls' = [calls EXCEPT ![c] =
                             [pc |-> "sleeping", tool |-> toolName,
                              wakeAt |-> now + (MINUTE_MS - (now - recent[1])),
                              result |-> "none"]]
              /\ UNCHANGED <<callCount, costUsed, handlerRuns>>
         ELSE Execute(c, toolName, recent)
  /\ UNCHANGED <<config, now, densityVars, pc, generateVars, cacheVars, sessionVars>>

\* The timer of sleep(waitTime) fires and the handler goes on after the await.
WakeTool(c) ==
  /\ calls[c].pc = "sleeping"
  /\ now >= calls[c].wakeAt
  /\ Execute(c, calls[c].tool, callTimestamps)
  /\ UNCHANGED <<config, now, densityVars, pc, generateVars, cacheVars, sessionVars>>

\* The underlying handler resolves (success: true) or rejects (success: false).
ToolReturns(c, ok) ==
  /\ calls[c].pc = "running"
  /\ calls' = [calls EXCEPT ![c] = [pc |-> "idle", tool |-> calls[c].tool, wakeAt |-> 0,
                                    result |-> IF ok THEN "success" ELSE "error"]]
  /\ UNCHANGED <<config, callCount, costUsed, callTimestamps, handlerRuns, now,
                 densityVars, pc, generateVars, cacheVars, sessionVars>>

ResetForNewScene ==
  /\ callCount' = 0
  /\ costUsed' = 0
  /\ handlerRuns' = 0
  /\ UNCHANGED <<config, callTimestamps, calls, now,
                 densityVars, pc, generateVars, cacheVars, sessionVars>>

ClockTick ==
  /\ now < MaxTicks * Tick
  /\ now' = now + Tick
  /\ UNCHANGED <<throttleVars, densityVars, pc, generateVars, cacheVars, sessionVars>>

NextThrottle ==
  \/ \E c \in Invocations : \E toolName \in ToolNames : InvokeTool(c, toolName)
  \/ \E c \in Invocations : WakeTool(c)
  \/ \E c \in Invocations : \E ok \in BOOLEAN : ToolReturns(c, ok)
  \/ ResetForNewScene
  \/ ClockTick

SpecThrottle == InitThrottle /\ [][NextThrottle]_vars

(***************************************************************************)
(* SceneGenerator.generate.  Each prompt goes to directorSession           *)
(* .sendAndWait and is awaited; a request is recorded by what tells the    *)
(* prompts apart: its kind, and for a scene the method that built it, the  *)
(* scene number and the commits of the group.                              *)
(***************************************************************************)
OpeningRequest == [kind |-> "opening"]

ActBreakRequest == [kind |-> "act-break"]

\* generateSceneGroup: single and highlight groups go to generateSingleScene
\* with group.commits[0], montage groups to generateMontageScene.
SceneRequest(group, n) ==
  [kind |-> "scene", type |-> group.type, sceneNumber |-> n,
   commits |-> IF group.type = "montage" THEN group.commits ELSE <<group.commits[1]>>]

\* The for..of loop over result.scenes has a group for scene number n.
hasGroup_skipLast(res, n) == n < Len(res.scenes)

hasGroup(res, n) == n <= Len(res.scenes)

(***************************************************************************)
(* Specification SpecGenerate: one run of generate on a non-empty commit   *)
(* list in the order of git log (newest first; GitExtractor.extract throws *)
(* on an empty list), with the director's tools throttled by the tool      *)
(* system of TheaterClient: DEFAULT_THROTTLE with budgetPerScene set from  *)
(* --tool-budget.  While a request is pending the model may call tools,    *)
(* one at a time.                                                          *)
(***************************************************************************)
GenerateLists(maxLen) ==
  UNION { { [i \in 1..n |-> Commit(i, Shapes[sh[i]], n + 1 - i)] :
              sh \in [1..n -> 1..Len(Shapes)] } : n \in 1..maxLen }

InitGenerate ==
  /\ commits \in GenerateLists(MaxGenerateCommits)
  /\ overrides \in OverridesSet
  /\ config \in { [DEFAULT_THROTTLE EXCEPT !.budgetPerScene = b] : b \in 1..MaxBudget }
  /\ mode = "none"
  /\ result = NoResult
  /\ limit = 0 /\ pivotal = <<>> /\ runs = <<>> /\ merged = <<>>
  /\ score = 0 /\ theme = "" /\ commitCount = 0
  /\ pc = "ready"
  /\ GenerateIdle
  /\ callCount = 0 /\ costUsed = 0 /\ callTimestamps = <<>>
  /\ calls = [c \in {"a"} |-> NoCall]
  /\ handlerRuns = 0
  /\ now = 0
  /\ CacheIdle /\ SessionIdle

\* generate up to its first await: mode, scene groups, the opening request.
Generate ==
  /\ pc = "ready"
  /\ mode' = determineDensityMode(Len(commits), overrides)
  /\ result' = processCommits(commits, mode')
  /\ requests' = <<OpeningRequest>>
  /\ awaiting' = awaiting + 1
  /\ pc' = "opening"
  /\ UNCHANGED <<commits, limit, pivotal, runs, merged, score, theme, commitCount,
                 overrides, sceneNumber, throttleVars, now, cacheVars, sessionVars>>

\* After the request before scene number n resolved: the request of group n,
\* or the act break when the loop is over.
SendNext(n) ==
  /\ requests' = Append(requests,
                        IF hasGroup(result, n) THEN SceneRequest(result.scenes[n], n)
                        ELSE ActBreakRequest)
  /\ pc' = IF hasGroup(result, n) THEN "scenes" ELSE "actBreak"
  /\ sceneNumber' = n

OpeningResolves ==
  /\ pc = "opening"
  /\ awaiting = 1
  /\ calls["a"].pc = "idle"
  /\ SendNext(1)
  /\ awaiting' = awaiting
  /\ UNCHANGED <<densityVars, throttleVars, now, cacheVars, sessionVars>>

SceneResolves ==
  /\ pc = "scenes"
  /\ awaiting = 1
  /\ calls["a"].pc = "idle"
  /\ SendNext(sceneNumber + 1)
  /\ awaiting' = awaiting
  /\ UNCHANGED <<densityVars, throttleVars, now, cacheVars, sessionVars>>

ActBreakResolves ==
  /\ pc = "actBreak"
  /\ awaiting = 1
  /\ calls["a"].pc = "idle"
  /\ awaiting' = awaiting - 1
  /\ pc' = "generate"
  /\ UNCHANGED <<densityVars, requests, sceneNumber, throttleVars, now, cacheVars, sessionVars>>

\* sendAndWait rejects: generate rejects with it.
RequestRejects ==
  /\ pc \in {"opening", "scenes", "actBreak"}
  /\ awaiting = 1
  /\ calls["a"].pc = "idle"
  /\ awaiting' = awaiting - 1
  /\ pc' = "failed"
  /\ UNCHANGED <<densityVars, requests, sceneNumber, throttleVars, now, cacheVars, sessionVars>>

\* The model calls a tool while its request is pending.
DirectorCallsTool(toolName) ==
  /\ pc \in {"opening", "scenes", "actBreak"}
  /\ awaiting = 1
  /\ InvokeTool("a", toolName)

DirectorToolReturns(ok) ==
  /\ pc \in {"opening", "scenes", "actBreak"}
  /\ ToolReturns("a", ok)

NextGenerate ==
  \/ Generate
  \/ OpeningResolves
  \/ SceneResolves
  \/ ActBreakResolves
  \/ RequestRejects
  \/ \E toolName \in ToolNames : DirectorCallsTool(toolName)
  \/ \E ok \in BOOLEAN : DirectorToolReturns(ok)

SpecGenerate == InitGenerate /\ [][NextGenerate]_vars

(***************************************************************************)
(* CommitCache.  A Date is its time value in milliseconds; an ISO string   *)
(* is the day, the second of the day and the millisecond it spells out.    *)
(* An optional argument is <<>> when undefined, else <<value>>.            *)
(***************************************************************************)
CACHE_TTL_MS == 24 * 60 * 60 * 1000

DAY_MS == 24 * 60 * 60 * 1000

toISOString(t) ==
  [day |-> t \div DAY_MS, second |-> (t % DAY_MS) \div 1000, ms |-> t % 1000]

\* new Date(iso).getTime()
parseDate(iso) == iso.day * DAY_MS + iso.second * 1000 + iso.ms

\* crypto.createHash('md5').update(data).digest('hex'): the digest of data.
md5(data) == [md5 |-> data]

getCacheKey_ignoringFrom(repoPath, fromRef, toRef) ==
  md5(repoPath \o ":" \o "HEAD" \o ":" \o (IF toRef = <<>> THEN "HEAD" ELSE toRef[1]))

\* fromRef || 'HEAD': undefined and the empty string are falsy.
getCacheKey(repoPath, fromRef, toRef) ==
  md5(repoPath \o ":" \o (IF fromRef \in {<<>>, <<"">>} THEN "HEAD" ELSE fromRef[1])
               \o ":" \o (IF toRef \in {<<>>, <<"">>} THEN "HEAD" ELSE toRef[1]))

serialize(res, t) ==
  [commits |-> [i \in 1..Len(res.commits) |->
                  [res.commits[i] EXCEPT !.date = toISOString(res.commits[i].date)]],
   contributors |-> [i \in 1..Len(res.contributors) |->
                       [res.contributors[i] EXCEPT
                          !.firstCommit = toISOString(res.contributors[i].firstCommit),
                          !.lastCommit = toISOString(res.contributors[i].lastCommit)]],
   fromRef |-> res.fromRef,
   toRef |-> res.toRef,
   dateRange |-> [start |-> toISOString(res.dateRange.start),
                  end |-> toISOString(res.dateRange.end)],
   cachedAt |-> toISOString(t)]

deserialize(cached) ==
  [commits |-> [i \in 1..Len(cached.commits) |->
                  [cached.commits[i] EXCEPT !.date = parseDate(cached.commits[i].date)]],
   contributors |-> [i \in 1..Len(cached.contributors) |->
                       [cached.contributors[i] EXCEPT
                          !.firstCommit = parseDate(cached.contributors[i].firstCommit),
                          !.lastCommit = parseDate(cached.contributors[i].lastCommit)]],
   fromRef |-> cached.fromRef,
   toRef |-> cached.toRef,
   dateRange |-> [start |-> parseDate(cached.dateRange.start),
                  end |-> parseDate(cached.dateRange.end)]]

\* The TTL test of get: the entry is dropped.
expired_never(cached, t) == FALSE

expired(cached, t) == t - parseDate(cached.cachedAt) > CACHE_TTL_MS

(***************************************************************************)
(* Specification SpecCache: set and get on one CommitCache for one         *)
(* repository, with from and to absent or given, while the clock moves     *)
(* through the instants at and just after the multiples of CACHE_TTL_MS.   *)
(***************************************************************************)
Repos == {"/repo"}

FromRefs == {<<>>, <<"HEAD">>, <<"v1">>}

ToRefs == {<<>>, <<"HEAD">>}

Extraction(first, last) ==
  [commits |-> <<[sha |-> "c1", message |-> "fix: a", date |-> last],
                 [sha |-> "c0", message |-> "feat: b", date |-> first]>>,
   contributors |-> <<[name |-> "ann", commitCount |-> 2,
                       firstCommit |-> first, lastCommit |-> last]>>,
   fromRef |-> "v1",
   toRef |-> "HEAD",
   dateRange |-> [start |-> first, end |-> last]]

Extractions == { Extraction(1, 1), Extraction(DAY_MS - 1, 2 * DAY_MS + 61001) }

Instants == UNION { {k * CACHE_TTL_MS, k * CACHE_TTL_MS + 1} : k \in 0..MaxTtls }

NoGet == [repoPath |-> "", fromRef |-> <<>>, toRef |-> <<>>, at |-> 0, value |-> <<>>]

InitCache ==
  /\ cacheStore = <<>>
  /\ got = NoGet
  /\ written = <<>>
  /\ now = 0
  /\ pc = "ready"
  /\ commits = <<>> /\ mode = "none" /\ runs = <<>> /\ merged = <<>> /\ Idle
  /\ GenerateIdle /\ ThrottleIdle /\ SessionIdle

\* Conf.set(key, value) and Conf.delete(key) on the stored object.
confSet(store, key, value) ==
  [k \in DOMAIN store \cup {key} |-> IF k = key THEN value ELSE store[k]]

confDelete(store, key) == [k \in DOMAIN store \ {key} |-> store[k]]

CacheSet(repoPath, fromRef, toRef, res) ==
  /\ cacheStore' = confSet(cacheStore, getCacheKey(repoPath, fromRef, toRef),
                           serialize(res, now))
  /\ written' = confSet(written,
                        <<repoPath, IF fromRef = <<>> THEN "HEAD" ELSE fromRef[1],
                          IF toRef = <<>> THEN "HEAD" ELSE toRef[1]>>,
                        [result |-> res, at |-> now])
  /\ pc' = "set"
  /\ UNCHANGED <<got, now, densityVars, generateVars, throttleVars, sessionVars>>

CacheGet(repoPath, fromRef, toRef) ==
  LET key == getCacheKey(repoPath, fromRef, toRef)
      answer(v) == [repoPath |-> repoPath, fromRef |-> fromRef, toRef |-> toRef,
                    at |-> now, value |-> v]
  IN  /\ IF key \notin DOMAIN cacheStore
         THEN got' = answer(<<>>) /\ UNCHANGED cacheStore
         ELSE IF expired(cacheStore[key], now)
         THEN got' = answer(<<>>) /\ cacheStore' = confDelete(cacheStore, key)
         ELSE got' = answer(<<deserialize(cacheStore[key])>>) /\ UNCHANGED cacheStore
      /\ pc' = "get"
      /\ UNCHANGED <<written, now, densityVars, generateVars, throttleVars, sessionVars>>

CacheClockAdvances ==
  /\ \E t \in Instants : t > now /\ now' = t
  /\ UNCHANGED <<pc, cacheVars, densityVars, generateVars, throttleVars, sessionVars>>

NextCache ==
  \/ \E r \in Repos : \E f \in FromRefs : \E t \in ToRefs : \E e \in Extractions :
       CacheSet(r, f, t, e)
  \/ \E r \in Repos : \E f \in FromRefs : \E t \in ToRefs : CacheGet(r, f, t)
  \/ CacheClockAdvances

SpecCache == InitCache /\ [][NextCache]_vars

(***************************************************************************)
(* SessionManager.  The two Conf stores hold at most one entry for the     *)
(* repository: <<>> when there is none, else <<entry>>.  acts is the       *)
(* history of the runs of the generate command: the options of each run,   *)
(* the path getOrCreateSessions took, what it returned and whether the     *)
(* act summary was stored.                                                 *)
(***************************************************************************)
SessionResult(isNew, actNumber) == [isNew |-> isNew, actNumber |-> actNumber]

StorySession(sessionId, actCount) == [directorSessionId |-> sessionId, actCount |-> actCount]

\* createFreshSessions: the session entry is written with actCount 1; the
\* narrative store is not touched.
createFreshSessions(stored, sessionId) ==
  [config |-> <<StorySession(sessionId, 1)>>, result |-> SessionResult(TRUE, 1)]

\* createWithRecap: the act number comes from the stored narrative alone.
createWithRecap(narrative, sessionId) ==
  LET actNumber == IF narrative # <<>> THEN narrative[1].actNumber + 1 ELSE 1
  IN  [config |-> <<StorySession(sessionId, actNumber)>>,
       result |-> SessionResult(FALSE, actNumber)]

\* The resume path returns stored.actCount + 1 and writes nothing.
resumeStored(stored) ==
  [config |-> stored, result |-> SessionResult(FALSE, stored[1].actCount + 1)]

InitSessions ==
  /\ sessionConfig = <<>>
  /\ narrativeConfig = <<>>
  /\ acts = <<>>
  /\ pc = "exit"
  /\ commits = <<>> /\ mode = "none" /\ runs = <<>> /\ merged = <<>> /\ Idle
  /\ GenerateIdle /\ ThrottleIdle /\ now = 0 /\ CacheIdle

\* One call of getOrCreateSessions at the start of a run.  resumes says
\* whether client.resumeSession succeeds for the stored director session.
GetOrCreateSessions(continue, forget, resumes) ==
  /\ pc = "exit"
  /\ Len(acts) < MaxRuns
  /\ LET sessionId == Len(acts) + 1
         cleared == IF forget THEN <<>> ELSE narrativeConfig
         path == IF forget \/ ~continue \/ sessionConfig = <<>> THEN "fresh"
                 ELSE IF resumes THEN "resumed" ELSE "recap"
         out == IF path = "fresh" THEN createFreshSessions(sessionConfig, sessionId)
                ELSE IF path = "resumed" THEN resumeStored(sessionConfig)
                ELSE createWithRecap(narrativeConfig, sessionId)
     IN  /\ sessionConfig' = out.config
         /\ narrativeConfig' = cleared
         /\ acts' = Append(acts, [continue |-> continue, forget |-> forget, path |-> path,
                                  isNew |-> out.result.isNew,
                                  actNumber |-> out.result.actNumber,
                                  summary |-> "pending"])
  /\ pc' = "generate"
  /\ UNCHANGED <<densityVars, generateVars, throttleVars, now, cacheVars>>

\* saveActSummary(actNumber, ...) at the end of the run.  response is what
\* the director's sendAndWait does: it answers with a JSON object, answers
\* without one, or rejects (caught and logged).
SaveActSummary(response) ==
  /\ pc = "generate"
  /\ LET actNumber == acts[Len(acts)].actNumber
     IN  IF response = "json"
         THEN /\ narrativeConfig' = <<[actNumber |-> actNumber]>>
              /\ sessionConfig' = IF sessionConfig # <<>>
                                  THEN <<[sessionConfig[1] EXCEPT !.actCount = actNumber]>>
                                  ELSE sessionConfig
              /\ acts' = [acts EXCEPT ![Len(acts)].summary = "saved"]
         ELSE /\ UNCHANGED <<sessionConfig, narrativeConfig>>
              /\ acts' = [acts EXCEPT ![Len(acts)].summary = "not saved"]
  /\ pc' = "exit"
  /\ UNCHANGED <<densityVars, generateVars, throttleVars, now, cacheVars>>

\* generator.generate rejects: the run ends in the catch block of the command
\* and saveActSummary is never called.
GenerationFails ==
  /\ pc = "generate"
  /\ acts' = [acts EXCEPT ![Len(acts)].summary = "not asked"]
  /\ pc' = "exit"
  /\ UNCHANGED <<sessionConfig, narrativeConfig, densityVars, generateVars, throttleVars,
                 now, cacheVars>>

NextSessions ==
  \/ \E continue \in BOOLEAN : \E forget \in BOOLEAN : \E resumes \in BOOLEAN :
       GetOrCreateSessions(continue, forget, resumes)
  \/ \E response \in {"json", "no json", "rejects"} : SaveActSummary(response)
  \/ GenerationFails

SpecSessions == InitSessions /\ [][NextSessions]_vars

(***************************************************************************)
(* Properties.                                                             *)
(***************************************************************************)
RECURSIVE Flatten(_)
Flatten(scenes) ==
  IF scenes = <<>> THEN <<>> ELSE Head(scenes).commits \o Flatten(Tail(scenes))

NoDuplicates(s) == \A i, j \in 1..Len(s) : s[i] = s[j] => i = j

Range(s) == { s[i] : i \in 1..Len(s) }

Position(cs, c) == CHOOSE i \in 1..Len(cs) : cs[i] = c

InOriginalOrder(g, cs) ==
  /\ Range(g) \subseteq Range(cs)
  /\ \A i, j \in 1..Len(g) : i < j => Position(cs, g[i]) < Position(cs, g[j])

Ascending(cs) == \A i, j \in 1..Len(cs) : i < j => cs[i].date <= cs[j].date

StrictlyAscending(cs) == \A i, j \in 1..Len(cs) : i < j => cs[i].date < cs[j].date

Processed == pc = "processCommits"

\* C1: in every mode, the concatenation of the commits of all emitted scene
\* groups has no duplicates and holds exactly the commits of the input: no
\* commit is lost and none appears twice.
C1_Coverage ==
  Processed =>
    LET flat == Flatten(result.scenes)
    IN  /\ NoDuplicates(flat)
        /\ Len(flat) = Len(commits)
        /\ Range(flat) = Range(commits)

\* C2: for an input in ascending chronological order, the concatenation of the
\* groups' commits reproduces the input order and membership; only in montage
\* mode an extracted pivotal commit is displaced while all other commits keep
\* their relative order; each group's commits are a non-empty subsequence of
\* the input in original order.
C2_Ordering ==
  (Processed /\ Ascending(commits)) =>
    LET flat == Flatten(result.scenes)
        extracted == { s.commits[1] : s \in { x \in Range(result.scenes) : x.type = "highlight" } }
        kept(c) == c \notin extracted
    IN  /\ \A s \in Range(result.scenes) :
             Len(s.commits) > 0 /\ InOriginalOrder(s.commits, commits)
        /\ Len(flat) = Len(commits)
        /\ Range(flat) = Range(commits)
        /\ mode # "montage" => flat = commits
        /\ mode = "montage" => SelectSeq(flat, kept) = SelectSeq(commits, kept)

\* The statement of C2 for inputs whose timestamps are strictly increasing.
C2_OrderingStrict ==
  (Processed /\ ~StrictlyAscending(commits)) \/ C2_Ordering

\* C3: in every mode each group of type single or highlight wraps exactly one
\* commit and has no title, each montage group wraps one or more commits, and
\* isPivotal is set (true) on a group if and only if its type is highlight.
C3_WellFormed ==
  Processed =>
    \A s \in Range(result.scenes) :
      /\ s.type \in {"single", "montage", "highlight"}
      /\ s.type \in {"single", "highlight"} =>
           Len(s.commits) = 1 /\ "title" \notin DOMAIN s
      /\ s.type = "montage" => Len(s.commits) >= 1
      /\ ("isPivotal" \in DOMAIN s /\ s.isPivotal) <=> s.type = "highlight"

C3_Witness ==
  /\ Processed
  /\ mode = "montage"
  /\ \E s \in Range(result.scenes) : s.type = "montage"
  /\ \E s \in Range(result.scenes) : s.type = "highlight"

\* C4: processCommits(commits, 'full') yields exactly len(commits) groups, the
\* i-th of type single wrapping exactly the i-th input commit, and
\* scenesCount = totalCommits = len(commits).
C4_FullIdentity ==
  (Processed /\ mode = "full") =>
    /\ result.mode = "full"
    /\ Len(result.scenes) = Len(commits)
    /\ \A i \in 1..Len(commits) :
         result.scenes[i].type = "single" /\ result.scenes[i].commits = <<commits[i]>>
    /\ result.scenesCount = Len(commits)
    /\ result.totalCommits = Len(commits)

C4_Witness ==
  /\ Processed
  /\ mode = "full"
  /\ Len(commits) >= 3
  /\ Len(result.scenes) = Len(commits)

\* C5: determineDensityMode returns full when overrides.full is set (whatever
\* highlightsOnly and the count), else highlights when overrides.highlightsOnly
\* is set, else full for count <= 50, montage for 51..200, highlights for
\* count >= 201.
C5_ModeSelection ==
  pc = "determineDensityMode" =>
    LET full == "full" \in DOMAIN overrides /\ overrides.full = TRUE
        highlightsOnly == "highlightsOnly" \in DOMAIN overrides
                            /\ overrides.highlightsOnly = TRUE
    IN  /\ full => mode = "full"
        /\ (~full /\ highlightsOnly) => mode = "highlights"
        /\ (~full /\ ~highlightsOnly /\ commitCount <= 50) => mode = "full"
        /\ (~full /\ ~highlightsOnly /\ commitCount >= 51 /\ commitCount <= 200) =>
             mode = "montage"
        /\ (~full /\ ~highlightsOnly /\ commitCount >= 201) => mode = "highlights"

C5_Witness ==
  /\ pc = "determineDensityMode"
  /\ commitCount = 200
  /\ mode = "montage"
  /\ "full" \in DOMAIN overrides /\ overrides.full = FALSE
  /\ "highlightsOnly" \notin DOMAIN overrides

\* C6: for any commit list and any limit, the list returned by
\* findAllPivotalCommits is sorted ascending by commit timestamp.
C6_Chronological ==
  pc = "findAllPivotalCommits" =>
    \A i, j \in 1..Len(pivotal) : i < j => pivotal[i].date <= pivotal[j].date

C6_Witness ==
  /\ pc = "findAllPivotalCommits"
  /\ \E i, j \in 1..Len(pivotal) :
       /\ i < j
       /\ pivotal[i].date < pivotal[j].date
       /\ calculatePivotalScore(pivotal[i]) < calculatePivotalScore(pivotal[j])

\* C7: findAllPivotalCommits(commits, limit) returns exactly
\* min(limit, len(commits)) distinct input commits; every returned commit
\* scores at least as much as every commit not returned, and of two commits
\* with equal score, one returned and one not, the returned one is the earlier
\* in the input.
C7_TopK ==
  pc = "findAllPivotalCommits" =>
    /\ Len(pivotal) = (IF limit <= Len(commits) THEN limit ELSE Len(commits))
    /\ NoDuplicates(pivotal)
    /\ Range(pivotal) \subseteq Range(commits)
    /\ \A r \in Range(pivotal) : \A u \in Range(commits) \ Range(pivotal) :
         /\ calculatePivotalScore(r) >= calculatePivotalScore(u)
         /\ calculatePivotalScore(r) = calculatePivotalScore(u) =>
              Position(commits, r) < Position(commits, u)

C7_Witness ==
  /\ pc = "findAllPivotalCommits"
  /\ limit >= 1
  /\ limit < Len(commits)
  /\ \E r \in Range(pivotal) : \E u \in Range(commits) \ Range(pivotal) :
       calculatePivotalScore(r) = calculatePivotalScore(u)
  /\ \E r \in Range(pivotal) : \E u \in Range(commits) \ Range(pivotal) :
       calculatePivotalScore(r) > calculatePivotalScore(u)

\* C8: calculatePivotalScore is the sum of the points of every row of the
\* point table whose condition holds, each row on its own; it lies between 0
\* and 25; 'hotfix' with 'critical' also fires the fix+critical row; the commit
\* 'breaking: major release hotfix for critical fix' with 600 changed lines and
\* 25 files scores 19.
C8_Scoring ==
  pc = "calculatePivotalScore" =>
    LET c == commits[1]
        m == toLowerCase(c.message)
        lines == c.additions + c.deletions
        holds(i) ==
          CASE i = 1 -> lines > 200
            [] i = 2 -> lines > 500
            [] i = 3 -> Len(c.files) > 10
            [] i = 4 -> Len(c.files) > 20
            [] i = 5 -> includes(m, K_breaking)
            [] i = 6 -> includes(m, K_major)
            [] i = 7 -> includes(m, K_release)
            [] i = 8 -> includes(m, K_fix) /\ includes(m, K_critical)
            [] i = 9 -> includes(m, K_revert)
            [] i = 10 -> includes(m, K_merge)
            [] i = 11 -> includes(m, K_hotfix)
            [] i = 12 -> includes(m, K_security)
            [] i = 13 -> startsWith(m, K_feat)
        points == <<2, 2, 2, 2, 3, 2, 2, 2, 2, 1, 2, 2, 1>>
        fired == { i \in 1..Len(points) : holds(i) }
        total[i \in 0..Len(points)] ==
          IF i = 0 THEN 0
          ELSE total[i - 1] + (IF i \in fired THEN points[i] ELSE 0)
    IN  /\ score = total[Len(points)]
        /\ score \in 0..25
        /\ lines > 500 => score >= 4
        /\ Len(c.files) > 20 => score >= 4
        /\ (includes(m, K_hotfix) /\ includes(m, K_critical)) => score >= 4
        /\ (c.message = M_example /\ lines = 600 /\ Len(c.files) = 25) => score = 19

C8_Witness ==
  /\ pc = "calculatePivotalScore"
  /\ score = 25

\* C9: in montage mode a group of two or more commits emits a highlight group
\* if and only if one of its commits scores >= 5, and a multi-commit group
\* without such a commit is emitted whole as exactly one montage group carrying
\* the group title.
C9_PivotalThreshold ==
  (Processed /\ mode = "montage") =>
    LET scenesOf(g) ==
          LET mine(s) == s.commits[1] \in Range(g.commits)
          IN  SelectSeq(result.scenes, mine)
        reaches5(g) == \E c \in Range(g.commits) : calculatePivotalScore(c) >= 5
    IN  \A g \in Range(groupByTheme(commits)) :
          Len(g.commits) >= 2 =>
            /\ (\E s \in Range(scenesOf(g)) : s.type = "highlight") <=> reaches5(g)
            /\ ~reaches5(g) =>
                 scenesOf(g) =
                   <<[type |-> "montage", title |-> g.title, commits |-> g.commits]>>

C9_Witness ==
  /\ Processed
  /\ mode = "montage"
  /\ \E s \in Range(result.scenes) :
       s.type = "highlight" /\ calculatePivotalScore(s.commits[1]) = 5
  /\ \E s \in Range(result.scenes) :
       s.type = "montage" /\ \E c \in Range(s.commits) : calculatePivotalScore(c) = 4

\* C10: inferTheme returns the first theme, in the order Bug Fixes, New
\* Features, Refactoring, Testing, Documentation, Code Style, Performance,
\* Security, Deployment, Configuration, for which some message contains one of
\* the theme's keywords; only when no message matches any keyword it returns
\* 'Testing' if a path contains 'test' or 'spec', else 'Documentation' if a
\* path ends in '.md' or contains 'doc', else 'Development'.
C10_ThemePriority ==
  pc = "inferTheme" =>
    LET msgs == { toLowerCase(commits[i].message) : i \in 1..Len(commits) }
        paths == UNION { Range(commits[i].files) : i \in 1..Len(commits) }
        priority == <<"Bug Fixes", "New Features", "Refactoring", "Testing",
                      "Documentation", "Code Style", "Performance", "Security",
                      "Deployment", "Configuration">>
        matching == { i \in 1..Len(patterns) :
                        \E m \in msgs : \E k \in Range(patterns[i].keywords) :
                          includes(m, k) }
    IN  /\ [i \in 1..Len(patterns) |-> patterns[i].theme] = priority
        /\ matching # {} =>
             \E i \in matching : theme = priority[i] /\ \A j \in matching : i <= j
        /\ matching = {} =>
             theme = IF \E f \in paths : includes(f, K_test) \/ includes(f, K_spec)
                     THEN "Testing"
                     ELSE IF \E f \in paths : endsWith(f, K_md) \/ includes(f, K_doc)
                          THEN "Documentation"
                          ELSE "Development"
        /\ (\E m \in msgs : includes(m, K_fix) /\ includes(m, K_test)) =>
             theme = "Bug Fixes"

C10_Witness ==
  /\ pc = "inferTheme"
  /\ theme = "Bug Fixes"
  /\ \E i \in 1..Len(commits) :
       includes(toLowerCase(commits[i].message), K_test)
  /\ \E i \in 1..Len(commits) : \E f \in 1..Len(commits[i].files) :
       includes(commits[i].files[f], K_doc)

(***************************************************************************)
(* Properties of processMontage step by step (SpecMontage).                *)
(***************************************************************************)
RunsDone == pc \in {"runs", "groupByTheme", "processMontage"}

MergeDone == pc \in {"groupByTheme", "processMontage"}

MontageDone == pc = "processMontage"

ThemeOf(c) == inferTheme(<<c>>)

GroupOf(gs, c) == CHOOSE g \in 1..Len(gs) : c \in Range(gs[g].commits)

Separated(i, k, j) ==
  /\ i < k /\ k < j
  /\ ThemeOf(commits[i]) = ThemeOf(commits[j])
  /\ ThemeOf(commits[i]) # ThemeOf(commits[k])

\* C11 (as stated): the groups montage mode works on are the maximal
\* contiguous runs of equal per-commit theme; two commits with the same theme
\* separated by a differently-themed commit end up in different groups.
C11_RunPartition ==
  MergeDone =>
    /\ Flatten(merged) = commits
    /\ \A g \in 1..Len(merged) : \A c \in Range(merged[g].commits) :
         ThemeOf(c) = merged[g].title
    /\ \A i, k, j \in 1..Len(commits) :
         Separated(i, k, j) => GroupOf(merged, commits[i]) # GroupOf(merged, commits[j])

\* C11 (amended): the consecutive-grouping pass yields the maximal contiguous
\* runs of equal per-commit theme, so two commits with the same theme
\* separated by a differently-themed commit are in different runs; the groups
\* after the merge pass are contiguous segments of the input made of whole
\* consecutive runs.
C11_RunsBeforeMerge ==
  /\ RunsDone =>
       /\ Flatten(runs) = commits
       /\ \A r \in 1..Len(runs) :
            /\ Len(runs[r].commits) >= 1
            /\ \A c \in Range(runs[r].commits) : ThemeOf(c) = runs[r].title
       /\ \A r \in 1..(Len(runs) - 1) : runs[r].title # runs[r + 1].title
       /\ \A i, k, j \in 1..Len(commits) :
            Separated(i, k, j) => GroupOf(runs, commits[i]) # GroupOf(runs, commits[j])
  /\ MergeDone =>
       /\ Flatten(merged) = commits
       /\ \A r \in 1..Len(runs) : \E g \in 1..Len(merged) :
            Range(runs[r].commits) \subseteq Range(merged[g].commits)

C11_Witness ==
  /\ MergeDone
  /\ \E i, k, j \in 1..Len(commits) :
       /\ Separated(i, k, j)
       /\ GroupOf(runs, commits[i]) # GroupOf(runs, commits[j])
       /\ GroupOf(merged, commits[i]) = GroupOf(merged, commits[j])
  /\ \E i, k, j \in 1..Len(commits) :
       /\ Separated(i, k, j)
       /\ GroupOf(merged, commits[i]) # GroupOf(merged, commits[j])

RECURSIVE JoinRuns(_, _, _)
JoinRuns(rs, k, l) ==
  IF k = l THEN rs[k]
  ELSE LET acc == JoinRuns(rs, k, l - 1)
       IN  [title |-> acc.title \o " & " \o rs[l].title,
            commits |-> acc.commits \o rs[l].commits]

\* C12: mergeSmallGroups walks the runs left to right with an accumulator and
\* merges the accumulator with the next run if and only if both have fewer
\* than 3 commits; the merged group is titled '{first} & {second}' and holds
\* the commits of both in order; a merged group can absorb the next small run
\* again, so three consecutive single-commit runs of three different themes
\* become one group, while a 2-commit run followed by a 3-commit run stays two
\* groups.
C12_MergePass ==
  MergeDone =>
    LET last[g \in 0..Len(merged)] ==
          IF g = 0 THEN 0
          ELSE LET ends == { l \in (last[g - 1] + 1)..Len(runs) :
                               JoinRuns(runs, last[g - 1] + 1, l) = merged[g] }
               IN  IF last[g - 1] = -1 \/ ends = {} THEN -1
                   ELSE CHOOSE l \in ends : TRUE
        small(cs) == Len(cs) < 3
    IN  /\ last[Len(merged)] = Len(runs)
        /\ \A g \in 1..Len(merged) :
             /\ \A m \in (last[g - 1] + 1)..(last[g] - 1) :
                  /\ small(JoinRuns(runs, last[g - 1] + 1, m).commits)
                  /\ small(runs[m + 1].commits)
             /\ last[g] < Len(runs) =>
                  ~(small(merged[g].commits) /\ small(runs[last[g] + 1].commits))
        /\ ( /\ Len(runs) = 3
             /\ \A r \in 1..3 : Len(runs[r].commits) = 1
             /\ Cardinality({ runs[r].title : r \in 1..3 }) = 3 ) =>
             Len(merged) = 1
        /\ ( /\ Len(runs) = 2
             /\ Len(runs[1].commits) = 2
             /\ Len(runs[2].commits) = 3 ) =>
             merged = runs

C12_Witness ==
  /\ MergeDone
  /\ Len(runs) = 3
  /\ \A r \in 1..3 : Len(runs[r].commits) = 1
  /\ Cardinality({ runs[r].title : r \in 1..3 }) = 3
  /\ Len(merged) = 1
  /\ merged[1].title = runs[1].title \o " & " \o runs[2].title \o " & " \o runs[3].title

Without(cs, p) == LET keep(c) == c # p IN SelectSeq(cs, keep)

Scores5(c) == calculatePivotalScore(c) >= 5

\* C13: in montage mode, for a group of two or more commits that contains a
\* pivotal commit, the output holds one montage group with all commits of the
\* group except the extracted pivotal one, in original order, and directly
\* after it one highlight group wrapping only that pivotal commit; a 5-commit
\* group whose 3rd commit is the only pivotal one yields
\* montage(1st,2nd,4th,5th) then highlight(3rd).
C13_ExtractionOrder ==
  MontageDone =>
    \A g \in 1..Len(merged) :
      (Len(merged[g].commits) >= 2 /\ \E c \in Range(merged[g].commits) : Scores5(c)) =>
        \E i \in 1..(Len(result.scenes) - 1) : \E p \in Range(merged[g].commits) :
          /\ Scores5(p)
          /\ result.scenes[i] =
               [type |-> "montage", title |-> merged[g].title,
                commits |-> Without(merged[g].commits, p)]
          /\ result.scenes[i + 1] =
               [type |-> "highlight", commits |-> <<p>>, isPivotal |-> TRUE]

C13_Witness ==
  /\ MontageDone
  /\ Len(merged) = 1
  /\ Len(commits) = 5
  /\ { i \in 1..5 : Scores5(commits[i]) } = {3}
  /\ result.scenes =
       << [type |-> "montage", title |-> merged[1].title,
           commits |-> <<commits[1], commits[2], commits[4], commits[5]>>],
          [type |-> "highlight", commits |-> <<commits[3]>>, isPivotal |-> TRUE] >>

ScenesOf(g) ==
  LET mine(s) == s.commits[1] \in Range(g.commits) IN SelectSeq(result.scenes, mine)

\* C14: in montage mode every group with exactly one commit after the merge
\* pass is emitted as one group of type single, without title and without
\* isPivotal, whether or not the commit is pivotal.
C14_SingleGroups ==
  MontageDone =>
    \A g \in 1..Len(merged) :
      Len(merged[g].commits) = 1 =>
        ScenesOf(merged[g]) = <<[type |-> "single", commits |-> merged[g].commits]>>

C14_Witness ==
  /\ MontageDone
  /\ Len(merged) >= 2
  /\ \E g \in 1..Len(merged) :
       /\ Len(merged[g].commits) = 1
       /\ Scores5(merged[g].commits[1])
       /\ ScenesOf(merged[g]) = <<[type |-> "single", commits |-> merged[g].commits]>>

\* C15: in montage mode at most one commit per group is extracted as a
\* highlight: in a group with several pivotal commits only the first one in
\* original order becomes a highlight group and the other pivotal commits stay
\* in the group's montage scene.
C15_FirstPivotalOnly ==
  MontageDone =>
    \A g \in 1..Len(merged) :
      LET cs == merged[g].commits
          five == { i \in 1..Len(cs) : Scores5(cs[i]) }
          mine == ScenesOf(merged[g])
          highlights == { i \in 1..Len(mine) : mine[i].type = "highlight" }
      IN  /\ Cardinality(highlights) <= 1
          /\ (Len(cs) >= 2 /\ five # {}) =>
               /\ \E h \in highlights : \E i \in five :
                    /\ mine[h].commits = <<cs[i]>>
                    /\ \A j \in five : i <= j
               /\ \A j \in five :
                    (\E i \in five : i < j) =>
                      \E s \in 1..Len(mine) :
                        mine[s].type = "montage" /\ cs[j] \in Range(mine[s].commits)

C15_Witness ==
  /\ MontageDone
  /\ \E g \in 1..Len(merged) :
       /\ Cardinality({ i \in 1..Len(merged[g].commits) :
                          Scores5(merged[g].commits[i]) }) >= 2
       /\ ~Scores5(merged[g].commits[1])

HighlightsDone == pc = "processHighlights"

\* The commits of the input strictly between positions a and b.
Between(a, b) == SubSeq(commits, a + 1, b - 1)

MontageOver(span) ==
  IF span = <<>> THEN <<>>
  ELSE <<[type |-> "montage", title |-> inferTheme(span), commits |-> span]>>

RECURSIVE WalkUpTo(_)
WalkUpTo(k) ==
  IF k = 0 THEN <<>>
  ELSE LET previous == IF k = 1 THEN 0 ELSE Position(commits, pivotal[k - 1])
       IN  WalkUpTo(k - 1)
           \o MontageOver(Between(previous, Position(commits, pivotal[k])))
           \o <<[type |-> "highlight", commits |-> <<pivotal[k]>>, isPivotal |-> TRUE]>>

C17_HighlightsArePivotal ==
  (Processed /\ mode = "highlights") =>
    LET highlights == { i \in 1..Len(result.scenes) : result.scenes[i].type = "highlight" }
    IN  /\ Cardinality(highlights) <= HIGHLIGHTS_COUNT
        /\ \A i \in highlights :
             /\ result.scenes[i].isPivotal
             /\ Len(result.scenes[i].commits) = 1
             /\ calculatePivotalScore(result.scenes[i].commits[1]) >= 5

\* C18: for an empty commit list processCommits returns, in each of the three
\* modes, a result with no scene groups, scenesCount = 0 and totalCommits = 0.
C18_EmptyInput ==
  (Processed /\ commits = <<>>) =>
    /\ result.mode = mode
    /\ result.scenes = <<>>
    /\ result.scenesCount = 0
    /\ result.totalCommits = 0

C18_Witness ==
  /\ Processed
  /\ commits = <<>>
  /\ mode = "highlights"
  /\ result.mode = "highlights"
  /\ result.scenesCount = 0

\* C20: processCommits in any mode leaves the caller's commit list unchanged:
\* same length, same commits at the same positions, no commit modified.
C20_ReadOnlyInput == [][pc' = "processCommits" => commits' = commits]_vars

\* A processed list that either sort of findAllPivotalCommits reorders.
C20_Witness ==
  /\ Processed
  /\ mode = "highlights"
  /\ Len(commits) >= 2
  /\ calculatePivotalScore(commits[1]) < calculatePivotalScore(commits[2])
  /\ commits[1].date > commits[2].date
  /\ Len(result.scenes) >= 2

\* C23: in the list returned by mergeSmallGroups no two adjacent groups both
\* have fewer than 3 commits, and a second merge pass over the returned list
\* changes nothing.
C23_MergeFixpoint ==
  MergeDone =>
    /\ \A g \in 1..(Len(merged) - 1) :
         ~(Len(merged[g].commits) < 3 /\ Len(merged[g + 1].commits) < 3)
    /\ mergeSmallGroups(merged) = merged

C23_Witness ==
  /\ MergeDone
  /\ Len(merged) >= 2
  /\ Len(merged) < Len(runs)
  /\ \E g \in 1..Len(merged) : Len(merged[g].commits) < 3
  /\ mergeSmallGroups(merged) = merged

\* The titles inferTheme can return; none of them contains " & ", so a title
\* outside this set is the title of a group produced by a merge.
ThemeNames ==
  { patterns[i].theme : i \in 1..Len(patterns) } \cup {"Testing", "Documentation", "Development"}

\* C24: every group produced by a merge (title containing " & ") holds at
\* least 2 and at most 4 commits; a group with more than 4 commits is a single
\* unmerged theme run.
C24_MergedSize ==
  MergeDone =>
    \A g \in 1..Len(merged) :
      /\ merged[g].title \notin ThemeNames =>
           (Len(merged[g].commits) >= 2 /\ Len(merged[g].commits) <= 4)
      /\ Len(merged[g].commits) > 4 =>
           (merged[g].title \in ThemeNames /\ merged[g] \in Range(runs))

C24_Witness ==
  /\ MergeDone
  /\ \E g \in 1..(Len(merged) - 1) :
       /\ merged[g].title \notin ThemeNames
       /\ Len(merged[g].commits) = 4
       /\ Len(merged[g + 1].commits) < 3

\* C25: for an input of any length processHighlights emits at most
\* HIGHLIGHTS_COUNT highlight groups and never two montage groups in a row,
\* hence at most 2 * HIGHLIGHTS_COUNT + 1 = 51 scene groups.
C25_BoundedHighlights ==
  HighlightsDone =>
    LET scenes == result.scenes
    IN  /\ Cardinality({ i \in 1..Len(scenes) : scenes[i].type = "highlight" })
             <= HIGHLIGHTS_COUNT
        /\ \A i \in 1..(Len(scenes) - 1) :
             ~(scenes[i].type = "montage" /\ scenes[i + 1].type = "montage")
        /\ Len(scenes) <= 2 * HIGHLIGHTS_COUNT + 1
        /\ result.scenesCount = Len(scenes)

C25_Witness ==
  /\ HighlightsDone
  /\ Len(commits) > HIGHLIGHTS_COUNT + 1
  /\ ~Ascending(commits)
  /\ Cardinality({ i \in 1..Len(result.scenes) : result.scenes[i].type = "highlight" })
       = HIGHLIGHTS_COUNT
  /\ Cardinality({ i \in 1..Len(result.scenes) : result.scenes[i].type = "montage" }) >= 2

\* The keyword theme of one commit: the index of the first pattern its own
\* message matches, 0 if none.
OwnPattern(c) == firstPattern(<<toLowerCase(c.message)>>, 1)

\* C26: inferTheme does not depend on the order of the commits nor on how many
\* commits carry each theme: every reordering of the list and the list with
\* one of its commits repeated give the same theme; if some message matches a
\* keyword, the theme is the highest-priority one among the keyword themes of
\* the individual commits, whatever the file paths.
C26_ThemeOfSet ==
  pc = "inferTheme" =>
    LET n == Len(commits)
        matched == { i \in 1..n : OwnPattern(commits[i]) # 0 }
    IN  /\ \A order \in Permutations(1..n) :
             inferTheme([i \in 1..n |-> commits[order[i]]]) = theme
        /\ \A i \in 1..n : inferTheme(<<commits[i]>> \o commits) = theme
        /\ matched # {} =>
             \E i \in matched :
               /\ theme = patterns[OwnPattern(commits[i])].theme
               /\ \A j \in matched : OwnPattern(commits[i]) <= OwnPattern(commits[j])

C26_Witness ==
  /\ pc = "inferTheme"
  /\ Len(commits) = 2
  /\ OwnPattern(commits[1]) > 1
  /\ OwnPattern(commits[2]) = 1
  /\ theme = "Bug Fixes"

(***************************************************************************)
(* Properties of ThrottledToolSystem (SpecThrottle).                       *)
(***************************************************************************)
\* C27: for any interleaving of concurrently invoked throttled handlers,
\* between two calls of resetForNewScene the number of executed tool handlers
\* never exceeds maxCallsPerScene and the accumulated cost never exceeds
\* budgetPerScene, so getStats never reports a negative callsRemaining or
\* budgetRemaining.
C27_LimitsUnderConcurrency ==
  /\ handlerRuns <= config.maxCallsPerScene
  /\ costUsed <= config.budgetPerScene
  /\ getStats.callsRemaining >= 0
  /\ getStats.budgetRemaining >= 0

\* C28: a throttled tool call made when callCount >= maxCallsPerScene, or when
\* costUsed plus the tool's cost (1 without a configured cost) would exceed
\* budgetPerScene, returns a result with success = false (here "limit" or
\* "budget") without invoking the underlying handler, and leaves callCount,
\* costUsed and the call timestamps unchanged.
C28_Rejection ==
  [][\A c \in Invocations :
       ( /\ calls[c].pc = "idle"
         /\ calls'[c] # calls[c]
         /\ \/ callCount >= config.maxCallsPerScene
            \/ costUsed + toolCostOf(config, calls'[c].tool) > config.budgetPerScene )
       => /\ calls'[c].pc = "idle"
          /\ calls'[c].result \in {"limit", "budget"}
          /\ handlerRuns' = handlerRuns
          /\ callCount' = callCount
          /\ costUsed' = costUsed
          /\ callTimestamps' = callTimestamps]_vars

C28_Witness ==
  /\ pc = "ready"
  /\ \E c, d \in Invocations :
       /\ calls[c].pc = "idle" /\ calls[c].result = "limit"
       /\ calls[d].pc = "idle" /\ calls[d].result = "budget"
       /\ calls[d].tool = "get_commit_diff"
  /\ callCount < config.maxCallsPerScene
  /\ costUsed = config.budgetPerScene
  /\ callTimestamps # <<>>

(***************************************************************************)
(* Properties of SceneGenerator.generate (SpecGenerate).                   *)
(***************************************************************************)
ExpectedRequests ==
  <<[kind |-> "opening"]>>
  \o [n \in 1..result.scenesCount |->
        [kind |-> "scene", type |-> result.scenes[n].type, sceneNumber |-> n,
         commits |-> IF result.scenes[n].type = "montage" THEN result.scenes[n].commits
                     ELSE <<result.scenes[n].commits[1]>>]]
  \o <<[kind |-> "act-break"]>>

\* C21: generate selects the mode from commits.length and the full and
\* highlightsOnly options, then issues its requests one at a time: the opening
\* request, one request per scene group in emission order with scene numbers
\* 1..scenesCount, each awaited before the next one, and the act break last.
C21_Sequential ==
  pc # "ready" =>
    /\ mode = determineDensityMode(Len(commits), overrides)
    /\ result.mode = mode
    /\ awaiting <= 1
    /\ Len(requests) <= Len(ExpectedRequests)
    /\ requests = SubSeq(ExpectedRequests, 1, Len(requests))
    /\ awaiting = 1 <=> pc \in {"opening", "scenes", "actBreak"}
    /\ pc = "scenes" => requests[Len(requests)].sceneNumber = sceneNumber
    /\ pc = "generate" => requests = ExpectedRequests

C21_Witness ==
  /\ pc = "generate"
  /\ mode = "highlights"
  /\ Len(requests) >= 5
  /\ \E i, j \in 1..Len(requests) :
       /\ requests[i].kind = "scene" /\ requests[i].type = "montage"
       /\ requests[j].kind = "scene" /\ requests[j].type = "highlight"
  /\ callCount > 0

\* C22: during a generate run the tool system's call count and used budget
\* are zero at the start of the generation of every scene group.
C22_PerSceneLimits ==
  [][( /\ Len(requests') = Len(requests) + 1
       /\ requests'[Len(requests')].kind = "scene" )
     => (callCount' = 0 /\ costUsed' = 0)]_vars

(***************************************************************************)
(* Properties of CommitCache (SpecCache).                                  *)
(***************************************************************************)
\* The key of the claim: an absent from or to ref counts as 'HEAD'.
AskedKey ==
  <<got.repoPath, IF got.fromRef = <<>> THEN "HEAD" ELSE got.fromRef[1],
    IF got.toRef = <<>> THEN "HEAD" ELSE got.toRef[1]>>

\* C29: get(repo, from, to) returns a result only if set was called for the
\* same key (an absent ref keyed as 'HEAD') and the entry stored by the last
\* such set is at most 24 hours old, and then returns the commits and
\* contributors of that set with their dates restored; an entry older than 24
\* hours is deleted by that get, which returns null, and a key without stored
\* entry gives null until the next set.
C29_CacheExpiry ==
  pc = "get" =>
    LET key == getCacheKey(got.repoPath, got.fromRef, got.toRef)
    IN  /\ got.value # <<>> =>
             /\ AskedKey \in DOMAIN written
             /\ got.at - written[AskedKey].at <= 24 * 60 * 60 * 1000
             /\ got.value[1].commits = written[AskedKey].result.commits
             /\ got.value[1].contributors = written[AskedKey].result.contributors
             /\ key \in DOMAIN cacheStore
        /\ ( /\ AskedKey \in DOMAIN written
             /\ got.at - written[AskedKey].at > 24 * 60 * 60 * 1000 ) =>
             (got.value = <<>> /\ key \notin DOMAIN cacheStore)
        /\ key \notin DOMAIN cacheStore => got.value = <<>>

C29_Witness ==
  /\ pc = "get"
  /\ got.fromRef = <<>>
  /\ got.value # <<>>
  /\ got.at - written[AskedKey].at = 24 * 60 * 60 * 1000
  /\ got.value[1].commits[1].date = 2 * DAY_MS + 61001
  /\ Cardinality(DOMAIN written) = 2
  /\ Cardinality(DOMAIN cacheStore) = 1

(***************************************************************************)
(* Properties of SessionManager (SpecSessions).                            *)
(***************************************************************************)
\* Run i continues a story: it was started with --continue and without
\* --forget, and between the last fresh run before it and run i every run
\* was a --continue run whose act summary was saved.
ContinuesStory(i) ==
  /\ i > 1
  /\ acts[i].continue /\ ~acts[i].forget
  /\ \E s \in 1..(i - 1) :
       /\ acts[s].path = "fresh"
       /\ \A j \in (s + 1)..(i - 1) :
            acts[j].continue /\ ~acts[j].forget /\ acts[j].summary = "saved"

\* C30: from a fresh run (act 1) on, through any sequence of --continue runs
\* whose act summaries were saved, the act number returned by
\* getOrCreateSessions is one more than that of the run before, on the resume
\* path and on the recap path alike; a run with --forget or without --continue
\* returns act 1 with isNew = true.
C30_ActNumbering ==
  \A i \in 1..Len(acts) :
    /\ ContinuesStory(i) => acts[i].actNumber = acts[i - 1].actNumber + 1
    /\ (acts[i].forget \/ ~acts[i].continue) => (acts[i].actNumber = 1 /\ acts[i].isNew)

====
